---- MODULE Spec2Model ----
(***************************************************************************)
(* customrouter: route expansion, aggregation and partitioning             *)
(* (pkg/routes, internal/controller/customhttproute), the admission        *)
(* conflict detector (internal/webhook) and the data-plane loader          *)
(* (K8sLoader) with its lookups.                                           *)
(*                                                                         *)
(* Strings are sequences of one-character strings, so that prefixes,       *)
(* trailing slashes, ports and lengths are computed as the code computes   *)
(* them.  The character "X" stands for a run of BlockLen letters x: it is  *)
(* how a path of several hundred kilobytes is written down.                *)
(***************************************************************************)
EXTENDS Integers, Sequences, FiniteSets, TLC

VARIABLES
    crs,        \* the Store's CustomHTTPRoutes: uid -> object
    cms,        \* the Store's ConfigMaps (partitions): name -> object
    rc,         \* the reconciler worker: its position and locals
    epoch,      \* the number of user operations so far (bounds the run)
    watch,      \* the loader's watch: connection state and undelivered events
    config,     \* K8sLoader.config: the snapshot lookups are answered from
    adm,        \* objects the webhook has admitted, not yet persisted: uid -> object
    fn          \* the pure-function harness: operation, inputs, result

vars == <<crs, cms, rc, epoch, watch, config, adm, fn>>

----------------------------------------------------------------------------
(* Strings *)

BlockLen == 307075

CharLen(c) == IF c = "X" THEN BlockLen ELSE 1

RECURSIVE StrLen(_)
StrLen(s) == IF s = <<>> THEN 0 ELSE CharLen(Head(s)) + StrLen(Tail(s))

HasPrefix(s, p) == Len(p) <= Len(s) /\ SubSeq(s, 1, Len(p)) = p

HasSuffix(s, p) == Len(p) <= Len(s) /\ SubSeq(s, Len(s) - Len(p) + 1, Len(s)) = p

\* strings.Index(s, c) + 1 for a one-character c: 0 when c does not occur
Index(s, c) ==
    IF \E i \in 1..Len(s) : s[i] = c
    THEN CHOOSE i \in 1..Len(s) : s[i] = c /\ \A j \in 1..(i - 1) : s[j] # c
    ELSE 0

\* strings.LastIndex(s, c) + 1
LastIndex(s, c) ==
    IF \E i \in 1..Len(s) : s[i] = c
    THEN CHOOSE i \in 1..Len(s) : s[i] = c /\ \A j \in (i + 1)..Len(s) : s[j] # c
    ELSE 0

Count(s, c) == Cardinality({i \in 1..Len(s) : s[i] = c})

\* strings.TrimRight(s, c): every trailing c is removed
RECURSIVE TrimRight(_, _)
TrimRight(s, c) ==
    IF s # <<>> /\ s[Len(s)] = c THEN TrimRight(SubSeq(s, 1, Len(s) - 1), c) ELSE s

\* the decimal digits of a natural number
RECURSIVE Itoa(_)
Itoa(n) ==
    LET d == <<"0", "1", "2", "3", "4", "5", "6", "7", "8", "9">>[(n % 10) + 1]
    IN  IF n < 10 THEN <<d>> ELSE Append(Itoa(n \div 10), d)

\* the characters of names, namespaces and hosts, in byte order
Alphabet ==
    <<"-", ".", "/", "0", "1", "2", "3", "4", "5", "6", "7", "8", "9", ":", "[", "]",
      "a", "b", "c", "d", "e", "f", "g", "h", "i", "j", "k", "l", "m", "n", "o", "p",
      "q", "r", "s", "t", "u", "v", "w", "x", "y", "z">>

CharOrd(c) == CHOOSE i \in 1..Len(Alphabet) : Alphabet[i] = c

\* a < b for Go strings (lexicographic in byte order)
RECURSIVE StrLess(_, _)
StrLess(a, b) ==
    IF b = <<>> THEN FALSE
    ELSE IF a = <<>> THEN TRUE
    ELSE IF Head(a) # Head(b) THEN CharOrd(Head(a)) < CharOrd(Head(b))
    ELSE StrLess(Tail(a), Tail(b))

Remove(s, i) == SubSeq(s, 1, i - 1) \o SubSeq(s, i + 1, Len(s))

\* the sequences that list every element of the set S once
RECURSIVE Orders(_)
Orders(S) ==
    IF S = {} THEN {<<>>}
    ELSE UNION {{<<x>> \o r : r \in Orders(S \ {x})} : x \in S}

\* one outcome per key: the functions f with f[k] \in F[k]
Choices(F) ==
    {f \in [DOMAIN F -> UNION {F[k] : k \in DOMAIN F}] : \A k \in DOMAIN F : f[k] \in F[k]}

----------------------------------------------------------------------------
(* Route model and matcher: routes.Route, RoutesConfig *)

\* an absent optional struct (a nil pointer) is a record with set = FALSE
NoPrefixes == [set |-> FALSE, values |-> <<>>, policy |-> "", expandMatchTypes |-> <<>>]

PathPrefixes(values, policy, expandMatchTypes) ==
    [set |-> TRUE, values |-> values, policy |-> policy,
     expandMatchTypes |-> expandMatchTypes]

RulePathPrefixes(policy, expandMatchTypes) ==
    [set |-> TRUE, values |-> <<>>, policy |-> policy,
     expandMatchTypes |-> expandMatchTypes]

PathMatch(path, type, priority) == [path |-> path, type |-> type, priority |-> priority]

BackendRef(name, namespace, port) == [name |-> name, namespace |-> namespace, port |-> port]

Rule(matches, backendRefs, pathPrefixes) ==
    [matches |-> matches, actions |-> <<>>, backendRefs |-> backendRefs,
     pathPrefixes |-> pathPrefixes]

\* a CustomHTTPRoute: metadata (namespace, name, deletionTimestamp, finalizer)
\* and spec
CustomHTTPRoute(namespace, name, target, hostnames, pathPrefixes, rules) ==
    [namespace |-> namespace, name |-> name, deleting |-> FALSE, finalizer |-> FALSE,
     target |-> target, hostnames |-> hostnames, pathPrefixes |-> pathPrefixes,
     rules |-> rules]

RouteTypeExact == "exact"
RouteTypePrefix == "prefix"
RouteTypeRegex == "regex"

MatchTypePathPrefix == "PathPrefix"
MatchTypeExact == "Exact"
MatchTypeRegex == "Regex"

PathPrefixPolicyOptional == "Optional"
PathPrefixPolicyRequired == "Required"
PathPrefixPolicyDisabled == "Disabled"

DefaultPriority == 1000

MaxRoutesPerCRD == 500000

Route(path, type, backend, priority, actions) ==
    [path |-> path, type |-> type, backend |-> backend, priority |-> priority,
     actions |-> actions]

----------------------------------------------------------------------------
(* Canonical ordering: SortRoutes and K8sLoader.sortRoutes *)

maxInsertion == 12

typePriority(t) ==
    CASE t = RouteTypeExact -> 0
      [] t = RouteTypeRegex -> 1
      [] t = RouteTypePrefix -> 2
      [] OTHER -> 0

\* a less function that orders by priority ascending
LessAscending(ri, rj) == ri.priority < rj.priority

\* the less function handed to sort.Slice
Less(ri, rj) ==
    IF ri.priority # rj.priority THEN ri.priority > rj.priority
    ELSE IF typePriority(ri.type) # typePriority(rj.type)
         THEN typePriority(ri.type) < typePriority(rj.type)
         ELSE StrLen(ri.path) > StrLen(rj.path)

\* sort.Slice on at most maxInsertion elements is an insertion sort: element i
\* moves left while it is less than its left neighbour
RECURSIVE InsertLeft(_, _)
InsertLeft(s, x) ==
    IF s # <<>> /\ Less(x, s[Len(s)])
    THEN Append(InsertLeft(SubSeq(s, 1, Len(s) - 1), x), s[Len(s)])
    ELSE Append(s, x)

RECURSIVE InsertionSort(_)
InsertionSort(s) ==
    IF s = <<>> THEN <<>>
    ELSE InsertLeft(InsertionSort(SubSeq(s, 1, Len(s) - 1)), s[Len(s)])

\* every arrangement of s in which no element is less than an earlier one
RECURSIVE SortedArrangements(_)
SortedArrangements(s) ==
    IF s = <<>> THEN {<<>>}
    ELSE UNION {{<<s[i]>> \o r : r \in SortedArrangements(Remove(s, i))} :
                i \in {k \in 1..Len(s) : \A j \in 1..Len(s) : ~Less(s[j], s[k])}}

\* sort.Slice(routes, less): the possible results.  sort.Slice is not stable:
\* beyond maxInsertion elements it is a pattern-defeating quicksort, whose
\* order of equal elements is unspecified.
SliceSort(s) ==
    IF Len(s) <= maxInsertion THEN {InsertionSort(s)} ELSE SortedArrangements(s)

SortRoutes(routes) == SliceSort(routes)

sortRoutes(routes) == SliceSort(routes)

----------------------------------------------------------------------------
(* Expander: ExpandRoutes *)

getEffectivePolicy(specPrefixes, rule) ==
    IF rule.pathPrefixes.set THEN rule.pathPrefixes.policy
    ELSE IF specPrefixes.set /\ specPrefixes.policy # "" THEN specPrefixes.policy
    ELSE PathPrefixPolicyOptional

\* expandMatchTypes where the spec level takes precedence over the rule
specExpandMatchTypes(specPrefixes, rule) ==
    IF specPrefixes.set /\ Len(specPrefixes.expandMatchTypes) > 0
    THEN specPrefixes.expandMatchTypes
    ELSE IF rule.pathPrefixes.set /\ Len(rule.pathPrefixes.expandMatchTypes) > 0
         THEN rule.pathPrefixes.expandMatchTypes
         ELSE <<>>

getEffectiveExpandMatchTypes(specPrefixes, rule) ==
    IF rule.pathPrefixes.set /\ Len(rule.pathPrefixes.expandMatchTypes) > 0
    THEN rule.pathPrefixes.expandMatchTypes
    ELSE IF specPrefixes.set /\ Len(specPrefixes.expandMatchTypes) > 0
         THEN specPrefixes.expandMatchTypes
         ELSE <<>>

shouldExpandMatchType(matchType, expandTypes) ==
    Len(expandTypes) = 0 \/ \E i \in 1..Len(expandTypes) : expandTypes[i] = matchType

getMatchType(t) ==
    CASE t = MatchTypeExact -> RouteTypeExact
      [] t = MatchTypeRegex -> RouteTypeRegex
      [] OTHER -> RouteTypePrefix

getEffectivePriority(priority) == IF priority = 0 THEN DefaultPriority ELSE priority

SvcSuffix ==
    <<".", "s", "v", "c", ".", "c", "l", "u", "s", "t", "e", "r", ".",
      "l", "o", "c", "a", "l", ":">>

buildBackendString(refs) ==
    IF Len(refs) = 0 THEN <<>>
    ELSE LET ref == refs[1]
         IN  IF Index(ref.name, ".") # 0
             THEN ref.name \o <<":">> \o Itoa(ref.port)
             ELSE ref.name \o <<".">> \o ref.namespace \o SvcSuffix \o Itoa(ref.port)

RECURSIVE JoinBar(_)
JoinBar(prefixes) ==
    IF Len(prefixes) = 0 THEN <<>>
    ELSE IF Len(prefixes) = 1 THEN prefixes[1]
    ELSE prefixes[1] \o <<"|">> \o JoinBar(Tail(prefixes))

PrefixPlaceholder == <<"{", "p", "r", "e", "f", "i", "x", "}">>

Contains(s, sub) == \E i \in 1..(Len(s) - Len(sub) + 1) : SubSeq(s, i, i + Len(sub) - 1) = sub

\* strings.ReplaceAll(s, old, new), left to right, non-overlapping
RECURSIVE ReplaceAll(_, _, _)
ReplaceAll(s, old, new) ==
    IF Len(s) < Len(old) \/ old = <<>> THEN s
    ELSE IF SubSeq(s, 1, Len(old)) = old
         THEN new \o ReplaceAll(SubSeq(s, Len(old) + 1, Len(s)), old, new)
         ELSE <<Head(s)>> \o ReplaceAll(Tail(s), old, new)

expandRegexWithPrefixes(pattern, prefixes, policy) ==
    IF policy = PathPrefixPolicyDisabled \/ Len(prefixes) = 0 THEN pattern
    ELSE LET langGroup == <<"(">> \o JoinBar(prefixes) \o <<")">>
             hasStartAnchor == HasPrefix(pattern, <<"^">>)
             workPattern == IF hasStartAnchor THEN Tail(pattern) ELSE pattern
             prefixPattern ==
                 IF policy = PathPrefixPolicyRequired THEN <<"/">> \o langGroup
                 ELSE <<"(", "?", ":", "/">> \o langGroup \o <<")", "?">>
         IN  IF Contains(pattern, PrefixPlaceholder)
             THEN CASE policy = PathPrefixPolicyRequired ->
                         ReplaceAll(pattern, PrefixPlaceholder, langGroup)
                    [] policy = PathPrefixPolicyOptional ->
                         ReplaceAll(pattern, PrefixPlaceholder, langGroup \o <<"?">>)
                    [] OTHER -> pattern
             ELSE IF ~HasPrefix(workPattern, <<"/">>) THEN pattern
             ELSE IF policy \notin {PathPrefixPolicyRequired, PathPrefixPolicyOptional}
                  THEN pattern
             ELSE IF hasStartAnchor THEN <<"^">> \o prefixPattern \o workPattern
             ELSE prefixPattern \o workPattern

\* the routes one match of a rule expands to, in the order they are appended
\* a pointer field: Nil for a nil pointer, Ptr(x) for a pointer to x
Nil == <<>>
Ptr(x) == <<x>>

\* v1alpha1.RedirectConfig, RewriteConfig, HeaderConfig and Action
RedirectConfig(scheme, hostname, path, port, statusCode) ==
    [Scheme |-> scheme, Hostname |-> hostname, Path |-> path, Port |-> port,
     StatusCode |-> statusCode]

RewriteConfig(path, replacePrefixMatch, hostname) ==
    [Path |-> path, ReplacePrefixMatch |-> replacePrefixMatch, Hostname |-> hostname]

HeaderConfig(name, value) == [Name |-> name, Value |-> value]

Action(type, redirect, rewrite, header, headerName) ==
    [type |-> type, Redirect |-> redirect, Rewrite |-> rewrite, Header |-> header,
     HeaderName |-> headerName]

ActionTypeRedirect == "redirect"
ActionTypeRewrite == "rewrite"
ActionTypeHeaderSet == "header-set"
ActionTypeHeaderAdd == "header-add"
ActionTypeHeaderRemove == "header-remove"

\* routes.RouteAction with the zero value in every field convertActions leaves
\* unset
RouteAction(type) ==
    [Type |-> type, RedirectScheme |-> <<>>, RedirectHostname |-> <<>>,
     RedirectPath |-> <<>>, RedirectPort |-> 0, RedirectStatusCode |-> 0,
     RewritePath |-> <<>>, RewriteHostname |-> <<>>, RewriteReplacePrefixMatch |-> "nil",
     HeaderName |-> <<>>, Value |-> <<>>]

\* convertActions on a Redirect: an absent status code becomes 302
Redirect(scheme, hostname, path, port, statusCode) ==
    [RouteAction(ActionTypeRedirect) EXCEPT
        !.RedirectScheme = scheme, !.RedirectHostname = hostname, !.RedirectPath = path,
        !.RedirectPort = port,
        !.RedirectStatusCode = IF statusCode = 0 THEN 302 ELSE statusCode]

Rewrite(path, hostname) ==
    [RouteAction(ActionTypeRewrite) EXCEPT !.RewritePath = path,
                                           !.RewriteHostname = hostname]

HeaderAction(type, name, value) ==
    [RouteAction(type) EXCEPT !.HeaderName = name, !.Value = value]

\* convertActions on one action
convertAction(a) ==
    CASE a.type = ActionTypeRedirect /\ a.Redirect # Nil ->
             Redirect(a.Redirect[1].Scheme, a.Redirect[1].Hostname, a.Redirect[1].Path,
                      IF a.Redirect[1].Port # Nil THEN a.Redirect[1].Port[1] ELSE 0,
                      a.Redirect[1].StatusCode)
      [] a.type = ActionTypeRewrite /\ a.Rewrite # Nil ->
             [Rewrite(a.Rewrite[1].Path, a.Rewrite[1].Hostname) EXCEPT
                 !.RewriteReplacePrefixMatch =
                     IF a.Rewrite[1].ReplacePrefixMatch = Nil THEN "nil"
                     ELSE IF a.Rewrite[1].ReplacePrefixMatch[1] THEN "true" ELSE "false"]
      [] a.type \in {ActionTypeHeaderSet, ActionTypeHeaderAdd} /\ a.Header # Nil ->
             HeaderAction(a.type, a.Header[1].Name, a.Header[1].Value)
      [] a.type = ActionTypeHeaderRemove ->
             [RouteAction(a.type) EXCEPT !.HeaderName = a.HeaderName]
      [] OTHER -> RouteAction(a.type)

\* convertActions: nil for no action
convertActions(apiActions) == [i \in 1..Len(apiActions) |-> convertAction(apiActions[i])]

\* an expansion that leaves the literal route out under Optional
expandMatchPrefixed(prefixes, policy, expandTypes, backend, actions, match) ==
    LET matchType == getMatchType(match.type)
        priority == getEffectivePriority(match.priority)
        literal == Route(match.path, matchType, backend, priority, actions)
        prefixed == [i \in 1..Len(prefixes) |->
                       Route(<<"/">> \o prefixes[i] \o match.path, matchType, backend,
                             priority, actions)]
    IN  IF ~shouldExpandMatchType(match.type, expandTypes) THEN <<literal>>
        ELSE IF match.type = MatchTypeRegex
             THEN <<Route(expandRegexWithPrefixes(match.path, prefixes, policy),
                          matchType, backend, priority, actions)>>
        ELSE IF policy = PathPrefixPolicyDisabled THEN <<literal>> ELSE prefixed

expandMatch(prefixes, policy, expandTypes, backend, actions, match) ==
    LET matchType == getMatchType(match.type)
        priority == getEffectivePriority(match.priority)
        literal == Route(match.path, matchType, backend, priority, actions)
        prefixed == [i \in 1..Len(prefixes) |->
                       Route(<<"/">> \o prefixes[i] \o match.path, matchType, backend,
                             priority, actions)]
    IN  IF ~shouldExpandMatchType(match.type, expandTypes) THEN <<literal>>
        ELSE IF match.type = MatchTypeRegex
             THEN <<Route(expandRegexWithPrefixes(match.path, prefixes, policy),
                          matchType, backend, priority, actions)>>
        ELSE CASE policy = PathPrefixPolicyDisabled -> <<literal>>
               [] policy = PathPrefixPolicyRequired -> prefixed
               [] policy = PathPrefixPolicyOptional -> Append(prefixed, literal)
               [] OTHER -> <<>>

RECURSIVE expandMatches(_, _, _, _, _, _)
expandMatches(prefixes, policy, expandTypes, backend, actions, matches) ==
    IF matches = <<>> THEN <<>>
    ELSE expandMatch(prefixes, policy, expandTypes, backend, actions, Head(matches))
         \o expandMatches(prefixes, policy, expandTypes, backend, actions, Tail(matches))

expandRule(specPrefixes, rule) ==
    expandMatches(IF specPrefixes.set THEN specPrefixes.values ELSE <<>>,
                  getEffectivePolicy(specPrefixes, rule),
                  getEffectiveExpandMatchTypes(specPrefixes, rule),
                  buildBackendString(rule.backendRefs),
                  convertActions(rule.actions),
                  rule.matches)

RECURSIVE expandRules(_, _)
expandRules(specPrefixes, rules) ==
    IF rules = <<>> THEN <<>>
    ELSE expandRule(specPrefixes, Head(rules)) \o expandRules(specPrefixes, Tail(rules))

RECURSIVE SumMatches(_)
SumMatches(rules) ==
    IF rules = <<>> THEN 0 ELSE Len(Head(rules).matches) + SumMatches(Tail(rules))

estimatedRoutes(cr) ==
    Len(cr.hostnames) * SumMatches(cr.rules)
        * ((IF cr.pathPrefixes.set THEN Len(cr.pathPrefixes.values) ELSE 0) + 1)

Range(s) == {s[i] : i \in 1..Len(s)}

\* ExpandRoutes: the possible results, each the route-explosion error or a map
\* host -> routes.  Every host gets the rules' routes, sorted; the sort is a
\* function of its input, so every host gets the same arrangement.
ExpandRoutes(cr) ==
    IF estimatedRoutes(cr) > MaxRoutesPerCRD THEN {[err |-> TRUE, hosts |-> <<>>]}
    ELSE {[err |-> FALSE, hosts |-> [h \in Range(cr.hostnames) |-> routes]] :
            routes \in SortRoutes(expandRules(cr.pathPrefixes, cr.rules))}

\* MergeRoutesConfig(configs...): per host the configs' routes concatenated in
\* argument order, then sorted
RECURSIVE ConcatHost(_, _)
ConcatHost(configs, host) ==
    IF configs = <<>> THEN <<>>
    ELSE (IF host \in DOMAIN Head(configs) THEN Head(configs)[host] ELSE <<>>)
         \o ConcatHost(Tail(configs), host)

MergeRoutesConfig(configs) ==
    LET hosts == UNION {DOMAIN configs[i] : i \in 1..Len(configs)}
    IN  Choices([h \in hosts |-> SortRoutes(ConcatHost(configs, h))])

----------------------------------------------------------------------------
(* Aggregator: rebuildAllConfigMaps, the per-target part *)

\* routesByTarget[target]: the listed routes of the target that are not being
\* deleted, in list order
routesByTarget(routeList, target) ==
    SelectSeq(routeList, LAMBDA r : ~r.deleting /\ r.target = target)

targetsOf(routeList) == {routeList[i].target : i \in {k \in 1..Len(routeList) : ~routeList[k].deleting}}

RECURSIVE ownHostnames(_, _, _)
ownHostnames(hostnames, namespace, owner) ==
    IF hostnames = <<>> THEN owner
    ELSE LET h == Head(hostnames)
         IN  ownHostnames(Tail(hostnames), namespace,
                 IF h \notin DOMAIN owner \/ StrLess(namespace, owner[h])
                 THEN [x \in DOMAIN owner \cup {h} |-> IF x = h THEN namespace ELSE owner[x]]
                 ELSE owner)

RECURSIVE hostnameOwnerLoop(_, _)
hostnameOwnerLoop(targetRoutes, owner) ==
    IF targetRoutes = <<>> THEN owner
    ELSE hostnameOwnerLoop(Tail(targetRoutes),
             ownHostnames(Head(targetRoutes).hostnames, Head(targetRoutes).namespace, owner))

hostnameOwner(targetRoutes) == hostnameOwnerLoop(targetRoutes, <<>>)

\* a filter that keeps every host, whoever owns it
filterNothing(expanded, owner, namespace) == expanded

\* the expansion of one route with the hostnames of other owners deleted
filterOwned(expanded, owner, namespace) ==
    [h \in {x \in DOMAIN expanded : owner[x] = namespace} |-> expanded[h]]

\* an aggregation that one failing expansion empties
RECURSIVE expandAllAbort(_, _)
expandAllAbort(targetRoutes, owner) ==
    IF targetRoutes = <<>> THEN {<<>>}
    ELSE IF \E i \in 1..Len(targetRoutes) : \E e \in ExpandRoutes(targetRoutes[i]) : e.err
    THEN {<<>>}
    ELSE LET route == Head(targetRoutes)
         IN  {<<filterOwned(e.hosts, owner, route.namespace)>> \o r :
                e \in ExpandRoutes(route), r \in expandAllAbort(Tail(targetRoutes), owner)}

\* allRoutes: the possible sequences of filtered expansions (a route whose
\* expansion fails is skipped)
RECURSIVE expandAll(_, _)
expandAll(targetRoutes, owner) ==
    IF targetRoutes = <<>> THEN {<<>>}
    ELSE LET route == Head(targetRoutes)
             heads == {IF e.err THEN <<>>
                       ELSE <<filterOwned(e.hosts, owner, route.namespace)>> :
                       e \in ExpandRoutes(route)}
         IN  {h \o r : h \in heads, r \in expandAll(Tail(targetRoutes), owner)}

\* the possible aggregated configs (host -> routes) of one target
aggregateTarget(targetRoutes) ==
    UNION {MergeRoutesConfig(all) :
             all \in expandAll(targetRoutes, hostnameOwner(targetRoutes))}

----------------------------------------------------------------------------
(* Serialization sizes: RoutesConfig.ToJSON (json.MarshalIndent, two spaces)
   and json.Marshal of one Route *)

RouteTypeLen(t) == IF t = RouteTypePrefix THEN 6 ELSE 5

RouteFieldsLen(r) ==
    StrLen(r.path) + RouteTypeLen(r.type) + StrLen(r.backend) + Len(Itoa(r.priority))

\* len(json.Marshal(route)): {"path":"","type":"","backend":"","priority":}
MarshalRouteLen(r) == 46 + RouteFieldsLen(r)

\* one route of an indented document: six lines at depth three
IndentRouteLen(r) == 99 + RouteFieldsLen(r)

RECURSIVE SumIndentRoutes(_)
SumIndentRoutes(rows) ==
    IF rows = <<>> THEN 0 ELSE IndentRouteLen(Head(rows)) + SumIndentRoutes(Tail(rows))

\* `    "host": ` and the value: null for a nil slice, else the bracketed rows
HostEntryLen(host, rows) ==
    StrLen(host) + 8
      + (IF rows = <<>> THEN 4
         ELSE 2 + SumIndentRoutes(rows) + 2 * (Len(rows) - 1) + 1 + 5)

RECURSIVE SumHostEntries(_, _)
SumHostEntries(hosts, S) ==
    IF S = {} THEN 0
    ELSE LET h == CHOOSE x \in S : TRUE
         IN  HostEntryLen(h, hosts[h]) + SumHostEntries(hosts, S \ {h})

\* the serialized fields of a Route: compiledRegex is not exported
JSONRoute(r) == [path |-> r.path, type |-> r.type, backend |-> r.backend,
                 priority |-> r.priority]

\* RoutesConfig.ToJSON: the document written to a ConfigMap's routes.json
ToJSON(hosts) ==
    [version |-> 1,
     hosts |-> [h \in DOMAIN hosts |->
                  [i \in 1..Len(hosts[h]) |-> JSONRoute(hosts[h][i])]]]

\* json.Unmarshal of a routes.json document into a RoutesConfig's hosts
Unmarshal(data) ==
    [h \in DOMAIN data.hosts |->
       [i \in 1..Len(data.hosts[h]) |->
          Route(data.hosts[h][i].path, data.hosts[h][i].type, data.hosts[h][i].backend,
                data.hosts[h][i].priority, <<>>)]]

\* len(config.ToJSON())
ToJSONLen(hosts) ==
    IF DOMAIN hosts = {} THEN 33
    ELSE 31 + SumHostEntries(hosts, DOMAIN hosts)
            + 2 * (Cardinality(DOMAIN hosts) - 1) + 1 + 5

----------------------------------------------------------------------------
(* Partitioner: partitionConfig, splitByHosts, splitHostRoutes *)

maxConfigMapSize == 900 * 1024

configMapBaseName ==
    <<"c", "u", "s", "t", "o", "m", "r", "o", "u", "t", "e", "r", "-",
      "r", "o", "u", "t", "e", "s">>

partitionName(target, index) ==
    configMapBaseName \o <<"-">> \o target \o <<"-">> \o Itoa(index)

ConfigMapPartition(name, target, data) == [name |-> name, target |-> target, data |-> data]

\* sort.Strings of a set of strings
SortStrings(S) ==
    CHOOSE o \in Orders(S) : \A i \in 1..Len(o) : \A j \in (i + 1)..Len(o) : StrLess(o[i], o[j])

RECURSIVE splitHostRoutesLoop(_, _, _, _)
splitHostRoutesLoop(target, host, hostRoutes, st) ==
    LET baseSize == 29 + StrLen(host)
        flushed == [partitions |-> Append(st.partitions,
                        ConfigMapPartition(partitionName(target, st.partIndex), target,
                                           ToJSON(host :> st.currentRoutes))),
                    partIndex |-> st.partIndex + 1,
                    currentRoutes |-> <<>>,
                    currentSize |-> 0]
    IN  IF hostRoutes = <<>>
        THEN (IF Len(st.currentRoutes) > 0 THEN flushed.partitions ELSE st.partitions)
        ELSE LET route == Head(hostRoutes)
                 routeSize == MarshalRouteLen(route) + 1
                 st1 == IF st.currentSize + routeSize + baseSize > maxConfigMapSize
                           /\ Len(st.currentRoutes) > 0
                        THEN flushed ELSE st
             IN  splitHostRoutesLoop(target, host, Tail(hostRoutes),
                     [st1 EXCEPT !.currentRoutes = Append(@, route),
                                 !.currentSize = @ + routeSize])

\* a split that leaves out the host's first route
splitHostRoutesTail(target, host, hostRoutes, startIndex) ==
    splitHostRoutesLoop(target, host, Tail(hostRoutes),
        [partitions |-> <<>>, partIndex |-> startIndex, currentRoutes |-> <<>>,
         currentSize |-> 0])

splitHostRoutes(target, host, hostRoutes, startIndex) ==
    splitHostRoutesLoop(target, host, hostRoutes,
        [partitions |-> <<>>, partIndex |-> startIndex, currentRoutes |-> <<>>,
         currentSize |-> 0])

RECURSIVE splitByHostsLoop(_, _, _, _)
splitByHostsLoop(target, cfg, hosts, st) ==
    LET flushed == [partitions |-> Append(st.partitions,
                        ConfigMapPartition(partitionName(target, st.partIndex), target,
                                           ToJSON(st.currentPartition))),
                    partIndex |-> st.partIndex + 1,
                    currentPartition |-> <<>>,
                    currentSize |-> 0]
    IN  IF hosts = <<>>
        THEN (IF DOMAIN st.currentPartition # {} THEN flushed.partitions
              ELSE st.partitions)
        ELSE LET host == Head(hosts)
                 hostRoutes == cfg[host]
                 hostSize == ToJSONLen(host :> hostRoutes)
             IN  IF hostSize > maxConfigMapSize
                 THEN LET st1 == IF DOMAIN st.currentPartition # {} THEN flushed ELSE st
                          hostPartitions ==
                              splitHostRoutes(target, host, hostRoutes, st1.partIndex)
                      IN  splitByHostsLoop(target, cfg, Tail(hosts),
                              [st1 EXCEPT !.partitions = @ \o hostPartitions,
                                          !.partIndex = @ + Len(hostPartitions)])
                 ELSE LET st1 == IF st.currentSize + hostSize > maxConfigMapSize
                                    /\ DOMAIN st.currentPartition # {}
                                 THEN flushed ELSE st
                      IN  splitByHostsLoop(target, cfg, Tail(hosts),
                              [st1 EXCEPT !.currentPartition = (host :> hostRoutes) @@ @,
                                          !.currentSize = @ + hostSize])

splitByHosts(target, cfg) ==
    splitByHostsLoop(target, cfg, SortStrings(DOMAIN cfg),
        [partitions |-> <<>>, partIndex |-> 0, currentPartition |-> <<>>,
         currentSize |-> 0])

partitionConfig(target, cfg) ==
    IF ToJSONLen(cfg) <= maxConfigMapSize
    THEN <<ConfigMapPartition(partitionName(target, 0), target, ToJSON(cfg))>>
    ELSE splitByHosts(target, cfg)

----------------------------------------------------------------------------
(* Matcher and data-plane loader: Route.Match, K8sLoader *)

\* Regular expressions: the patterns are literals, the anchors ^ and $, groups
\* ( ) and (?: ), alternations | and the operators ? and ??

\* the group opened at i closes at the first ) that balances it; 0 for none
closeOf(p, i) ==
    LET closes == {j \in (i + 1)..Len(p) :
                      /\ p[j] = ")"
                      /\ Cardinality({k \in i..j : p[k] = "("})
                             = Cardinality({k \in i..j : p[k] = ")"})}
    IN  IF closes = {} THEN 0 ELSE CHOOSE j \in closes : \A k \in closes : j <= k

\* the | of p[a..b] outside every group
topBars(p, a, b) ==
    {k \in a..b : /\ p[k] = "|"
                  /\ Cardinality({x \in a..k : p[x] = "("})
                         = Cardinality({x \in a..k : p[x] = ")"})}

\* regexp.Compile fails: a group that is not closed or not opened, (? without
\* a colon, or ? with nothing to repeat
CompileFails(pattern) ==
    \/ Count(pattern, "(") # Count(pattern, ")")
    \/ \E j \in 1..Len(pattern) :
           Cardinality({k \in 1..j : pattern[k] = ")"})
               > Cardinality({k \in 1..j : pattern[k] = "("})
    \/ \E k \in 1..Len(pattern) :
           /\ pattern[k] = "?"
           /\ \/ k = 1
              \/ pattern[k - 1] = "|"
              \/ pattern[k - 1] = "(" /\ (k = Len(pattern) \/ pattern[k + 1] # ":")
              \/ k > 2 /\ pattern[k - 1] = "?" /\ pattern[k - 2] \in {"?", "("}

\* the positions of s a match of p[a..b] can end at when it starts at a
\* position of S (a position is the number of characters before it)
RECURSIVE altEnds(_, _, _, _, _)
RECURSIVE seqEnds(_, _, _, _, _)
altEnds(p, a, b, s, S) ==
    LET bars == topBars(p, a, b)
    IN  IF bars = {} THEN seqEnds(p, a, b, s, S)
        ELSE LET k == CHOOSE x \in bars : \A y \in bars : x <= y
             IN  seqEnds(p, a, k - 1, s, S) \cup altEnds(p, k + 1, b, s, S)

seqEnds(p, a, b, s, S) ==
    IF a > b THEN S
    ELSE LET e == IF p[a] = "(" THEN closeOf(p, a) ELSE a
             inner == IF a + 2 <= e /\ p[a + 1] = "?" /\ p[a + 2] = ":" THEN a + 3 ELSE a + 1
             opt == e < b /\ p[e + 1] = "?"
             lazy == opt /\ e + 1 < b /\ p[e + 2] = "?"
             T == CASE p[a] = "(" -> altEnds(p, inner, e - 1, s, S)
                    [] p[a] = "^" -> S \cap {0}
                    [] p[a] = "$" -> S \cap {Len(s)}
                    [] OTHER -> {i + 1 : i \in {x \in S : x < Len(s) /\ s[x + 1] = p[a]}}
         IN  seqEnds(p, e + 1 + (IF opt THEN 1 ELSE 0) + (IF lazy THEN 1 ELSE 0), b, s,
                     IF opt THEN T \cup S ELSE T)

\* Regexp.MatchString of a pattern that compiles: a match anywhere in path
MatchString(pattern, path) == altEnds(pattern, 1, Len(pattern), path, 0..Len(path)) # {}

\* Route.Match
Match(r, path) ==
    CASE r.type = RouteTypeExact -> path = r.path
      [] r.type = RouteTypePrefix -> HasPrefix(path, r.path)
      [] r.type = RouteTypeRegex -> ~CompileFails(r.path) /\ MatchString(r.path, path)
      [] OTHER -> FALSE

\* RoutesConfig.CompileRegexes returns an error
CompileRegexesFails(hosts) ==
    \E h \in DOMAIN hosts : \E i \in 1..Len(hosts[h]) :
        hosts[h][i].type = RouteTypeRegex /\ CompileFails(hosts[h][i].path)

\* the ConfigMaps a List with the loader's label selector returns, sorted by name
listConfigMaps(store, targetName) ==
    SortStrings({n \in DOMAIN store : store[n].target = targetName})

RECURSIVE mergeHosts(_, _, _)
mergeHosts(store, names, host) ==
    IF names = <<>> THEN <<>>
    ELSE LET cfg == Unmarshal(store[Head(names)].data)
         IN  (IF host \in DOMAIN cfg THEN cfg[host] ELSE <<>>)
             \o mergeHosts(store, Tail(names), host)

\* a payload cut short: the text of data without its end
Truncated(data) == [version |-> data.version, hosts |-> data.hosts, truncated |-> TRUE]

\* json.Unmarshal returns an error
UnmarshalFails(data) == "truncated" \in DOMAIN data

\* loadLocked after a successful List: the possible results, each an error
\* (l.config is left as it was) or the merged, sorted config
loadLocked(store, targetName) ==
    LET names == listConfigMaps(store, targetName)
        hosts == UNION {DOMAIN store[names[i]].data.hosts : i \in 1..Len(names)}
        merged == Choices([h \in hosts |-> sortRoutes(mergeHosts(store, names, h))])
    IN  IF \E i \in 1..Len(names) : UnmarshalFails(store[names[i]].data)
        THEN {[err |-> TRUE, hosts |-> <<>>]}
        ELSE {[err |-> CompileRegexesFails(m), hosts |-> m] : m \in merged}

\* a variant of loadLockedConfig that stores what it has merged whatever the error
loadLockedAlways(prev, store, targetName) ==
    {r.hosts : r \in loadLocked(store, targetName)}

\* l.config after loadLocked: assigned only when no error is returned
loadLockedConfig(prev, store, targetName) ==
    {IF r.err THEN prev ELSE r.hosts : r \in loadLocked(store, targetName)}

NoRoute == [found |-> FALSE, route |-> Route(<<>>, "", <<>>, 0, <<>>)]

RECURSIVE firstMatch(_, _)
firstMatch(routes, path) ==
    IF routes = <<>> THEN NoRoute
    ELSE IF Match(Head(routes), path) THEN [found |-> TRUE, route |-> Head(routes)]
    ELSE firstMatch(Tail(routes), path)

\* K8sLoader.FindRoute on the snapshot hosts
FindRoute(hosts, host, path) ==
    LET idx == Index(host, ":")
        h == IF idx # 0 THEN SubSeq(host, 1, idx - 1) ELSE host
    IN  IF h \notin DOMAIN hosts THEN NoRoute ELSE firstMatch(hosts[h], path)

\* extproc stripPort
stripPort(host) ==
    LET idx == LastIndex(host, ":")
    IN  IF idx = 0 THEN host
        ELSE IF Index(host, "]") # 0
             THEN (IF LastIndex(host, "]") < idx THEN SubSeq(host, 1, idx - 1) ELSE host)
        ELSE IF Count(host, ":") = 1 THEN SubSeq(host, 1, idx - 1)
        ELSE host

----------------------------------------------------------------------------
(* The CustomHTTPRoutes, hosts and requests the model is run on *)

TargetT == <<"t">>
TargetU == <<"u">>
HostA == <<"a">>
HostB == <<"b">>
HostV6 == <<"[", ":", ":", "1", "]">>
Ns1 == <<"n", "1">>
Ns2 == <<"n", "2">>

Svc(ns) == <<BackendRef(<<"s">>, ns, 80)>>

\* S2: a Prefix match /api with Optional prefixes es, fr
crApi ==
    CustomHTTPRoute(Ns1, <<"a", "p", "i">>, TargetT, <<HostA>>,
        PathPrefixes(<<<<"e", "s">>, <<"f", "r">>>>, PathPrefixPolicyOptional, <<>>),
        <<Rule(<<PathMatch(<<"/", "a", "p", "i">>, MatchTypePathPrefix, 0)>>,
               Svc(Ns1), NoPrefixes)>>)

\* a second namespace declaring the host of crApi and one of its own
crMix ==
    CustomHTTPRoute(Ns2, <<"m", "i", "x">>, TargetT, <<HostA, HostB>>, NoPrefixes,
        <<Rule(<<PathMatch(<<"/", "x">>, MatchTypeExact, 0),
                 PathMatch(<<"^", "/", "b">>, MatchTypeRegex, 2000),
                 PathMatch(<<"/">>, MatchTypePathPrefix, 2000)>>,
               Svc(Ns2), NoPrefixes)>>)

\* a host written as an IPv6 literal
crV6 ==
    CustomHTTPRoute(Ns1, <<"v", "6">>, TargetT, <<HostV6>>, NoPrefixes,
        <<Rule(<<PathMatch(<<"/">>, MatchTypePathPrefix, 0)>>, Svc(Ns1), NoPrefixes)>>)

\* four routes of about BlockLen bytes each on one host
crBig ==
    CustomHTTPRoute(Ns1, <<"b", "i", "g">>, TargetT, <<HostA>>, NoPrefixes,
        <<Rule(<<PathMatch(<<"/", "X">>, MatchTypePathPrefix, 0),
                 PathMatch(<<"/", "X", "a">>, MatchTypePathPrefix, 0),
                 PathMatch(<<"/", "X", "a", "b">>, MatchTypePathPrefix, 0),
                 PathMatch(<<"/", "X", "a", "b", "c">>, MatchTypePathPrefix, 0)>>,
               Svc(Ns1), NoPrefixes)>>)

\* two routes of about BlockLen bytes each
crWide(name, host, tail) ==
    CustomHTTPRoute(Ns1, name, TargetT, <<host>>, NoPrefixes,
        <<Rule(<<PathMatch(<<"/", "X">> \o tail, MatchTypePathPrefix, 0),
                 PathMatch(<<"/", "X", "a">> \o tail, MatchTypePathPrefix, 0)>>,
               Svc(Ns1), NoPrefixes)>>)

crWideA == crWide(<<"w", "a">>, HostA, <<>>)
crWideB == crWide(<<"w", "b">>, HostB, <<>>)
crWideC == crWide(<<"w", "c">>, HostA, <<"b", "c">>)

\* thirteen routes on one host: priorities 3..13 in ascending order, then two
\* routes that tie (priority 20, same kind, same path length)
crMany ==
    CustomHTTPRoute(Ns1, <<"m", "a", "n", "y">>, TargetT, <<HostB>>, NoPrefixes,
        <<Rule([i \in 1..11 |-> PathMatch(<<"/", "c">> \o Itoa(i), MatchTypePathPrefix, i + 2)]
               \o <<PathMatch(<<"/", "y", "a">>, MatchTypePathPrefix, 20),
                    PathMatch(<<"/", "y", "b">>, MatchTypePathPrefix, 20)>>,
               Svc(Ns1), NoPrefixes)>>)

\* another target
crOther ==
    CustomHTTPRoute(Ns1, <<"o">>, TargetU, <<HostA>>, NoPrefixes,
        <<Rule(<<PathMatch(<<"/", "a", "p", "i">>, MatchTypeExact, 0)>>,
               Svc(Ns1), NoPrefixes)>>)

\* a route of the smallest namespace that is being deleted
crGone ==
    [CustomHTTPRoute(<<"n", "0">>, <<"g">>, TargetT, <<HostA, HostB>>, NoPrefixes,
        <<Rule(<<PathMatch(<<"/", "g">>, MatchTypeExact, 0)>>, Svc(<<"n", "0">>),
               NoPrefixes)>>) EXCEPT !.deleting = TRUE]

----------------------------------------------------------------------------
(* The expander, aggregator, partitioner, loader and lookup applied to route
   lists: the tables each produces *)

MaxList == 2

FnCatalogue == {crApi, crMix, crV6, crBig, crWideA, crWideB, crMany, crOther, crGone}

\* the lists a List of CustomHTTPRoutes can return: no object twice
RouteLists ==
    {l \in UNION {[1..n -> FnCatalogue] : n \in 0..MaxList} :
        \A i \in 1..Len(l) : \A j \in 1..Len(l) : i # j => l[i] # l[j]}

FnHosts ==
    {HostA, HostB, HostA \o <<":", "8", "0">>, HostV6 \o <<":", "8", "0">>, HostV6}

FnPaths ==
    {<<"/", "a", "p", "i">>, <<"/", "e", "s", "/", "a", "p", "i">>, <<"/", "x">>,
     <<"/", "x", "/">>, <<"/", "b">>, <<"/", "y", "a">>}

FnIdle ==
    [op |-> "none", routeList |-> <<>>, index |-> 0, target |-> <<>>, expanded |-> <<>>,
     table |-> <<>>, partitions |-> <<>>, snapshot |-> <<>>, host |-> <<>>,
     path |-> <<>>, result |-> NoRoute]

TableInit ==
    /\ crs = <<>>
    /\ cms = <<>>
    /\ rc = <<>>
    /\ epoch = 0
    /\ watch = <<>>
    /\ config = <<>>
    /\ adm = <<>>
    /\ fn \in {[FnIdle EXCEPT !.op = "input", !.routeList = l] : l \in RouteLists}

\* ExpandRoutes on one route of the list
FnExpandRoutes ==
    /\ fn.op = "input"
    /\ \E i \in 1..Len(fn.routeList) : \E e \in ExpandRoutes(fn.routeList[i]) :
          /\ ~e.err
          /\ fn' = [fn EXCEPT !.op = "ExpandRoutes", !.index = i, !.expanded = e.hosts]
    /\ UNCHANGED <<crs, cms, rc, epoch, watch, config, adm>>

\* the aggregation and partitioning rebuildAllConfigMaps does for one target
FnRebuild ==
    /\ fn.op = "input"
    /\ \E target \in targetsOf(fn.routeList) :
       \E table \in aggregateTarget(routesByTarget(fn.routeList, target)) :
          fn' = [fn EXCEPT !.op = "rebuild", !.target = target, !.table = table,
                           !.partitions = partitionConfig(target, table)]
    /\ UNCHANGED <<crs, cms, rc, epoch, watch, config, adm>>

\* the Store holding exactly the partitions p
storeOf(p) ==
    [n \in {p[i].name : i \in 1..Len(p)} |->
       LET i == CHOOSE k \in 1..Len(p) : p[k].name = n
       IN  [target |-> p[i].target, data |-> p[i].data]]

\* K8sLoader.Load with the target's partitions in the Store
FnLoad ==
    /\ fn.op = "rebuild"
    /\ \E r \in loadLocked(storeOf(fn.partitions), fn.target) :
          /\ ~r.err
          /\ fn' = [fn EXCEPT !.op = "Load", !.snapshot = r.hosts]
    /\ UNCHANGED <<crs, cms, rc, epoch, watch, config, adm>>

\* K8sLoader.FindRoute on the loaded snapshot
FnFindRoute ==
    /\ fn.op = "Load"
    /\ \E host \in FnHosts : \E path \in FnPaths :
          fn' = [fn EXCEPT !.op = "FindRoute", !.host = host, !.path = path,
                           !.result = FindRoute(fn.snapshot, host, path)]
    /\ UNCHANGED <<crs, cms, rc, epoch, watch, config, adm>>

TableNext == FnExpandRoutes \/ FnRebuild \/ FnLoad \/ FnFindRoute

TableSpec == TableInit /\ [][TableNext]_vars

----------------------------------------------------------------------------
(* The controller, the Store and the data-plane loader *)

MaxEpoch == 3

\* the Lists of the loader that fail
MaxFailures == 1

\* the objects users apply, by uid
Uids == {"wa", "wc", "o"}

Object(uid) ==
    CASE uid = "wa" -> crWideA
      [] uid = "wc" -> crWideC
      [] OTHER -> crOther

\* the loader's K8sLoaderConfig.TargetName
LoaderTarget == TargetT

RcIdle ==
    [pc |-> "idle", queue |-> {}, req |-> "", deleting |-> FALSE, list |-> <<>>,
     partitions |-> <<>>, next |-> 1, stale |-> {}, deleted |-> {}]

Init ==
    /\ crs = <<>>
    /\ cms = <<>>
    /\ rc = RcIdle
    /\ epoch = 0
    /\ watch = [connected |-> TRUE, pending |-> FALSE, failures |-> 0]
    /\ config = <<>>
    /\ adm = <<>>
    /\ fn = FnIdle

Drop(f, k) == [x \in DOMAIN f \ {k} |-> f[x]]

\* a user creates an object: the controller's watch enqueues a request for it
UserCreate(uid) ==
    /\ epoch < MaxEpoch
    /\ uid \notin DOMAIN crs
    /\ crs' = (uid :> Object(uid)) @@ crs
    /\ rc' = [rc EXCEPT !.queue = @ \cup {uid}]
    /\ epoch' = epoch + 1
    /\ UNCHANGED <<cms, watch, config, adm, fn>>

\* a user deletes an object: with a finalizer it is marked (deletionTimestamp),
\* without one it is gone at once
UserDelete(uid) ==
    /\ epoch < MaxEpoch
    /\ uid \in DOMAIN crs
    /\ ~crs[uid].deleting
    /\ crs' = IF crs[uid].finalizer THEN [crs EXCEPT ![uid].deleting = TRUE]
              ELSE Drop(crs, uid)
    /\ rc' = [rc EXCEPT !.queue = @ \cup {uid}]
    /\ epoch' = epoch + 1
    /\ UNCHANGED <<cms, watch, config, adm, fn>>

\* the results a List of the CustomHTTPRoutes can return
listRoutes(store) == {[i \in 1..Len(o) |-> store[o[i]]] : o \in Orders(DOMAIN store)}

\* the partitions rebuildAllConfigMaps computes, target after target in the
\* order the map of targets is ranged over
RECURSIVE partitionsOf(_, _)
partitionsOf(routeList, targets) ==
    IF targets = <<>> THEN {<<>>}
    ELSE {partitionConfig(Head(targets), table) \o rest :
            table \in aggregateTarget(routesByTarget(routeList, Head(targets))),
            rest \in partitionsOf(routeList, Tail(targets))}

rebuildPlans(routeList) ==
    UNION {partitionsOf(routeList, order) : order \in Orders(targetsOf(routeList))}

\* the tables loadLocked can build from a Store
tablesOf(store, targetName) ==
    {r.hosts : r \in {x \in loadLocked(store, targetName) : ~x.err}}

\* the watch of the loader receives an event for a change to a ConfigMap of its
\* target.  Every event is handled by the same full reload, so the events that
\* are buffered are kept as one flag.
notify(w, target, changed) ==
    IF w.connected /\ changed /\ target = LoaderTarget
    THEN [w EXCEPT !.pending = TRUE]
    ELSE w

\* Reconcile of a request whose object is gone: Get returns NotFound
RcGone ==
    /\ rc.pc = "idle"
    /\ \E uid \in rc.queue \ DOMAIN crs : rc' = [rc EXCEPT !.queue = @ \ {uid}]
    /\ UNCHANGED <<crs, cms, epoch, watch, config, adm, fn>>

\* the Store after Reconcile has added the finalizer to a live object
withFinalizer(store, uid) ==
    IF store[uid].deleting THEN store ELSE [store EXCEPT ![uid].finalizer = TRUE]

\* the values an object takes in the Store
ObjectStates(uid) ==
    {Object(uid), [Object(uid) EXCEPT !.finalizer = TRUE],
     [Object(uid) EXCEPT !.finalizer = TRUE, !.deleting = TRUE]}

Stores ==
    UNION {{st \in [S -> UNION {ObjectStates(u) : u \in S}] :
              \A u \in S : st[u] \in ObjectStates(u)} : S \in SUBSET Uids}

\* rebuildAllConfigMaps up to the partitions, tabulated by Store: the routes
\* listed and every target's partitions
Rebuilds ==
    UNION {UNION {{[store |-> st, list |-> routeList, partitions |-> plan] :
                     plan \in rebuildPlans(routeList)} :
                  routeList \in listRoutes(st)} : st \in Stores}

\* the worker after the List of rebuildAllConfigMaps, for request uid
rebuildStarts(worker, store, uid) ==
    {[worker EXCEPT !.pc = "upsert",
                    !.queue = @ \ {uid},
                    !.req = uid,
                    !.deleting = store[uid].deleting,
                    !.list = r.list,
                    !.partitions = r.partitions,
                    !.next = 1,
                    !.stale = {},
                    !.deleted = {}] :
       r \in {x \in Rebuilds : x.store = withFinalizer(store, uid)}}

\* Reconcile, up to the List of rebuildAllConfigMaps: Get the object, add the
\* finalizer to a live one, then list the routes and compute every target's
\* partitions
RcBegin ==
    /\ rc.pc = "idle"
    /\ rc' \in UNION {rebuildStarts(rc, crs, uid) : uid \in rc.queue \cap DOMAIN crs}
    /\ crs' = withFinalizer(crs, rc'.req)
    /\ UNCHANGED <<cms, epoch, watch, config, adm, fn>>

\* upsertSingleConfigMap for the next partition
RcUpsert ==
    /\ rc.pc = "upsert"
    /\ rc.next <= Len(rc.partitions)
    /\ LET p == rc.partitions[rc.next]
           object == [target |-> p.target, data |-> p.data]
           changed == p.name \notin DOMAIN cms \/ cms[p.name] # object
       IN  /\ cms' = (p.name :> object) @@ cms
           /\ watch' = notify(watch, p.target, changed)
    /\ rc' = [rc EXCEPT !.next = @ + 1]
    /\ UNCHANGED <<crs, epoch, config, adm, fn>>

\* a listing that finds no stale ConfigMap
staleNone(store, active) == {}

\* the names deleteStaleConfigMaps is to delete: listed, with the base name as
\* prefix, and not active
staleNames(store, active) ==
    {n \in DOMAIN store : HasPrefix(n, configMapBaseName) /\ n \notin active}

\* deleteStaleConfigMaps: the List of the managed ConfigMaps
RcListStale ==
    /\ rc.pc = "upsert"
    /\ rc.next > Len(rc.partitions)
    /\ rc' = [rc EXCEPT !.pc = "stale",
                        !.stale = staleNames(cms,
                                     {rc.partitions[i].name : i \in 1..Len(rc.partitions)})]
    /\ UNCHANGED <<crs, cms, epoch, watch, config, adm, fn>>

\* deleteStaleConfigMaps: the Delete of one listed ConfigMap
RcDeleteStale ==
    /\ rc.pc = "stale"
    /\ \E n \in rc.stale \ rc.deleted :
          /\ cms' = Drop(cms, n)
          /\ watch' = notify(watch, cms[n].target, TRUE)
          /\ rc' = [rc EXCEPT !.deleted = @ \cup {n}]
    /\ UNCHANGED <<crs, epoch, config, adm, fn>>

\* the end of Reconcile: the finalizer of a deleted object is removed
RcFinish ==
    /\ rc.pc = "stale"
    /\ rc.stale = rc.deleted
    /\ crs' = IF rc.deleting /\ rc.req \in DOMAIN crs THEN Drop(crs, rc.req) ELSE crs
    /\ rc' = [rc EXCEPT !.pc = "idle"]
    /\ UNCHANGED <<cms, epoch, watch, config, adm, fn>>

\* the ConfigMaps of a target in a Store
configMapsOf(store, targetName) ==
    [n \in {m \in DOMAIN store : store[m].target = targetName} |-> store[n]]

\* the ConfigMaps a publication writes for the loader's target, by name
Written ==
    {p \in UNION {Range(r.partitions) : r \in Rebuilds} : p.target = LoaderTarget}

TargetStores ==
    UNION {{st \in [N -> {[target |-> p.target, data |-> p.data] : p \in Written}] :
              \A n \in N : \E p \in Written :
                 p.name = n /\ st[n] = [target |-> p.target, data |-> p.data]} :
           N \in SUBSET {p.name : p \in Written}}

\* loadLocked tabulated by the target's ConfigMaps: the tables a reload builds
Loads ==
    UNION {{[store |-> st, hosts |-> t] : t \in tablesOf(st, LoaderTarget)} :
           st \in TargetStores}

reload(store) ==
    {x.hosts : x \in {y \in Loads : y.store = configMapsOf(store, LoaderTarget)}}

\* handleWatchEvents, one event: reload under the lock; a failed reload (the
\* List fails) leaves l.config as it was, and its error is dropped
LoaderEvent ==
    /\ watch.connected
    /\ watch.pending
    /\ \/ /\ config' \in reload(cms)
          /\ watch' = [watch EXCEPT !.pending = FALSE]
       \/ /\ watch.failures < MaxFailures
          /\ config' = config
          /\ watch' = [watch EXCEPT !.pending = FALSE, !.failures = @ + 1]
    /\ UNCHANGED <<crs, cms, rc, epoch, adm, fn>>

\* the watch ends (the server closes it once its events are delivered)
WatchClose ==
    /\ watch.connected
    /\ ~watch.pending
    /\ watch' = [watch EXCEPT !.connected = FALSE]
    /\ UNCHANGED <<crs, cms, rc, epoch, config, adm, fn>>

\* watchLoop starts a new Watch: the server sends an Added event for every
\* ConfigMap of the target that exists
WatchOpen ==
    /\ ~watch.connected
    /\ watch' = [connected |-> TRUE,
                 pending |-> \E n \in DOMAIN cms : cms[n].target = LoaderTarget,
                 failures |-> watch.failures]
    /\ UNCHANGED <<crs, cms, rc, epoch, config, adm, fn>>

\* the steps of the reconciler's one worker
Reconciler == RcGone \/ RcBegin \/ RcUpsert \/ RcListStale \/ RcDeleteStale \/ RcFinish

\* the steps of the loader's watch goroutine
Loader == LoaderEvent \/ WatchClose \/ WatchOpen

Next ==
    \/ \E uid \in Uids : UserCreate(uid)
    \/ \E uid \in Uids : UserDelete(uid)
    \/ Reconciler
    \/ Loader

Spec == Init /\ [][Next]_vars

\* the same system with the users working on the objects of one target
LiveUids == {"wa", "wc"}

LiveNext ==
    \/ \E uid \in LiveUids : UserCreate(uid)
    \/ \E uid \in LiveUids : UserDelete(uid)
    \/ Reconciler
    \/ Loader

\* the reconciler's worker runs every step that is due; the loader's goroutine
\* handles every delivered event; the server ends every Watch after its
\* timeout and watchLoop opens a new one
Fairness ==
    /\ WF_vars(Reconciler)
    /\ WF_vars(LoaderEvent)
    /\ WF_vars(WatchClose)
    /\ WF_vars(WatchOpen)

LiveSpec == Init /\ [][LiveNext]_vars /\ Fairness

-----------------------------------------------------------------------------
(* The expander on one rule: expandRule over spec-level and rule-level prefix
   configurations *)

Es == <<"e", "s">>
Fr == <<"f", "r">>

\* spec.pathPrefixes: absent, or values with a policy (the empty policy of an
\* object that predates the default) and expandMatchTypes
ExSpecPrefixes ==
    {NoPrefixes}
    \cup {PathPrefixes(values, policy, types) :
            values \in {<<>>, <<Es>>, <<Es, Fr>>},
            policy \in {"", PathPrefixPolicyOptional, PathPrefixPolicyRequired,
                        PathPrefixPolicyDisabled},
            types \in {<<>>, <<MatchTypeExact>>, <<MatchTypePathPrefix, MatchTypeRegex>>}}

\* rule.pathPrefixes: absent, or a policy with expandMatchTypes
ExRulePrefixes ==
    {NoPrefixes}
    \cup {RulePathPrefixes(policy, types) :
            policy \in {PathPrefixPolicyOptional, PathPrefixPolicyRequired,
                        PathPrefixPolicyDisabled},
            types \in {<<>>, <<MatchTypeRegex>>, <<MatchTypeExact, MatchTypePathPrefix>>}}

ExMatches ==
    {<<PathMatch(<<"/", "a">>, MatchTypeExact, 0)>>,
     <<PathMatch(<<"/", "b">>, MatchTypePathPrefix, 5)>>,
     <<PathMatch(<<"^", "/", "c", "$">>, MatchTypeRegex, 0)>>,
     <<PathMatch(<<"/", "c">>, MatchTypeRegex, 0)>>,
     <<PathMatch(<<"^", "/", "(", "a", "|", "b", ")", "$">>, MatchTypeRegex, 0)>>,
     <<PathMatch(<<"^", "/", "a", "$", "|", "^", "/", "b", "$">>, MatchTypeRegex, 0)>>,
     <<PathMatch(<<"/", "b">>, MatchTypePathPrefix, 0),
       PathMatch(<<"^", "/", "c", "$">>, MatchTypeRegex, 7),
       PathMatch(<<"/", "a">>, MatchTypeExact, 3)>>}

ExActions ==
    {<<>>,
     <<Action(ActionTypeHeaderSet, Nil, Nil, Ptr(HeaderConfig(<<"k">>, <<"v">>)), <<>>),
       Action(ActionTypeRewrite, Nil, Ptr(RewriteConfig(<<"/", "w">>, Ptr(TRUE), <<>>)), Nil, <<>>),
       Action(ActionTypeRedirect,
              Ptr(RedirectConfig(<<>>, HostB, <<>>, Ptr(8443), 0)), Nil, Nil, <<>>)>>}

ExRules ==
    {[Rule(matches, Svc(Ns1), prefixes) EXCEPT !.actions = actions] :
        matches \in ExMatches, prefixes \in ExRulePrefixes, actions \in ExActions}

\* the request paths the rewritten patterns are run on
ExPaths ==
    {<<"/", "a">>, <<"/", "b">>, <<"/", "c">>, <<"/", "d">>,
     <<"/", "e", "s", "/", "a">>, <<"/", "e", "s">>, <<"/", "x", "/", "c">>}

ExInit ==
    /\ crs = <<>>
    /\ cms = <<>>
    /\ rc = RcIdle
    /\ epoch = 0
    /\ watch = [connected |-> FALSE, pending |-> FALSE, failures |-> 0]
    /\ config = <<>>
    /\ adm = <<>>
    /\ \E specPrefixes \in ExSpecPrefixes : \E rule \in ExRules :
          fn = [op |-> "input", specPrefixes |-> specPrefixes, rule |-> rule,
                routes |-> <<>>]

\* expandRule on the rule
ExExpandRule ==
    /\ fn.op = "input"
    /\ fn' = [fn EXCEPT !.op = "expandRule",
                        !.routes = expandRule(fn.specPrefixes, fn.rule)]
    /\ UNCHANGED <<crs, cms, rc, epoch, watch, config, adm>>

ExpandSpec == ExInit /\ [][ExExpandRule]_vars

-----------------------------------------------------------------------------
(* Admission: the validating webhook of CustomHTTPRoute and the conflict
   detector.  No gateway-API HTTPRoute exists in the modelled cluster. *)

routeMatch(pathType, path) ==
    [PathType |-> pathType, Path |-> path, Method |-> <<>>, Headers |-> <<>>,
     QueryParams |-> <<>>]

normalizePath(p) ==
    IF Len(p) > 1 /\ HasSuffix(p, <<"/">>) THEN TrimRight(p, "/") ELSE p

\* the matches of all the rules, in order
RECURSIVE ruleMatches(_)
ruleMatches(rules) ==
    IF rules = <<>> THEN <<>> ELSE Head(rules).matches \o ruleMatches(Tail(rules))

\* extractCustomRouteMatches: the first match of every (type, normalized path)
RECURSIVE uniqueMatches(_, _)
uniqueMatches(ms, seen) ==
    IF ms = <<>> THEN <<>>
    ELSE LET m == routeMatch(Head(ms).type, normalizePath(Head(ms).path))
         IN  IF m \in seen THEN uniqueMatches(Tail(ms), seen)
             ELSE <<m>> \o uniqueMatches(Tail(ms), seen \cup {m})

extractCustomRouteMatches(route) == uniqueMatches(ruleMatches(route.rules), {})

\* strings.ToLower over the letters the model uses in upper case
LowerCase == ("H" :> "h") @@ ("G" :> "g") @@ ("E" :> "e") @@ ("T" :> "t")

ToLower(s) == [i \in 1..Len(s) |-> IF s[i] \in DOMAIN LowerCase THEN LowerCase[s[i]] ELSE s[i]]

\* strings.EqualFold
EqualFold(a, b) == ToLower(a) = ToLower(b)

methodsCompatible(a, b) == a = <<>> \/ b = <<>> \/ EqualFold(a, b)

\* headersCompatible, queryParamsCompatible: sequences of <<name, value>>.
\* bMap keeps, for a lower-cased name, the value of the last entry of b.
headersCompatible(a, b) ==
    \/ Len(a) = 0
    \/ Len(b) = 0
    \/ \A i \in 1..Len(a) :
          LET js == {j \in 1..Len(b) : ToLower(b[j][1]) = ToLower(a[i][1])}
          IN  js # {} => b[CHOOSE j \in js : \A k \in js : k <= j][2] = a[i][2]

queryParamsCompatible(a, b) == headersCompatible(a, b)

matchesOverlap(ma, mb) ==
    /\ ma.PathType = mb.PathType
    /\ ma.Path = mb.Path
    /\ methodsCompatible(ma.Method, mb.Method)
    /\ headersCompatible(ma.Headers, mb.Headers)
    /\ queryParamsCompatible(ma.QueryParams, mb.QueryParams)

\* findRouteMatchOverlap: the matches of a that overlap a match of b
findRouteMatchOverlap(a, b) ==
    SelectSeq(a, LAMBDA ma : \E j \in 1..Len(b) : matchesOverlap(ma, b[j]))

toSet(items) == Range(items)

findOverlap(set, candidates) == SelectSeq(candidates, LAMBDA c : c \in set)

\* validateRule: TRUE for an error
hasRedirect(rule) == \E i \in 1..Len(rule.actions) : rule.actions[i].type = "redirect"

validateRule(rule) == ~hasRedirect(rule) /\ Len(rule.backendRefs) = 0

Validate(route) == \E i \in 1..Len(route.rules) : validateRule(route.rules[i])

\* a check that compares the object with every listed CustomHTTPRoute, its own
\* stored version included
CheckEveryHostname(listed, uid, route) ==
    /\ Len(route.hostnames) # 0
    /\ \E other \in DOMAIN listed :
          /\ listed[other].target = route.target
          /\ Len(findOverlap(toSet(route.hostnames), listed[other].hostnames)) # 0
          /\ Len(findRouteMatchOverlap(extractCustomRouteMatches(route),
                                       extractCustomRouteMatches(listed[other]))) > 0

\* CheckCustomHTTPRouteHostnames against the listed CustomHTTPRoutes (uid ->
\* object): TRUE for a conflict
CheckCustomHTTPRouteHostnames(listed, uid, route) ==
    /\ Len(route.hostnames) # 0
    /\ \E other \in DOMAIN listed \ {uid} :
          /\ listed[other].target = route.target
          /\ Len(findOverlap(toSet(route.hostnames), listed[other].hostnames)) # 0
          /\ Len(findRouteMatchOverlap(extractCustomRouteMatches(route),
                                       extractCustomRouteMatches(listed[other]))) > 0

\* ValidateCreate, ValidateUpdate: TRUE when the object is admitted
Admitted(listed, uid, route) ==
    ~Validate(route) /\ ~CheckCustomHTTPRouteHostnames(listed, uid, route)

ApiPath == <<"/", "a", "p", "i">>

crAdm(namespace, name, target, hostnames, path, backendRefs) ==
    CustomHTTPRoute(namespace, name, target, hostnames, NoPrefixes,
        <<Rule(<<PathMatch(path, MatchTypePathPrefix, 0)>>, backendRefs, NoPrefixes)>>)

\* the objects the users submit, by uid
Candidates(uid) ==
    IF uid = "p"
    THEN {crAdm(Ns1, <<"p">>, TargetT, <<HostA>>, ApiPath, Svc(Ns1)),
          crAdm(Ns1, <<"p">>, TargetT, <<HostA>>, <<"/", "x">>, Svc(Ns1))}
    ELSE IF uid = "q"
    THEN {crAdm(Ns2, <<"q">>, TargetT, <<HostA, HostB>>, ApiPath \o <<"/">>, Svc(Ns2)),
          crAdm(Ns2, <<"q">>, TargetU, <<HostA, HostB>>, ApiPath \o <<"/">>, Svc(Ns2))}
    ELSE {crAdm(Ns1, <<"r">>, TargetT, <<HostB>>, ApiPath, Svc(Ns1)),
          crAdm(Ns1, <<"r">>, TargetT, <<HostB>>, ApiPath, <<>>)}

AdmUids == {"p", "q", "r"}

MaxRequests == 4

AdmInit ==
    /\ crs = <<>>
    /\ cms = <<>>
    /\ rc = RcIdle
    /\ epoch = 0
    /\ watch = [connected |-> FALSE, pending |-> FALSE, failures |-> 0]
    /\ config = <<>>
    /\ adm = <<>>
    /\ fn = FnIdle

\* the webhook reviews a create or an update of object uid against the
\* CustomHTTPRoutes it lists; an admitted object is persisted later.  The
\* review and its answer are kept in fn.
AdmReview(uid, route) ==
    /\ epoch < MaxRequests
    /\ uid \notin DOMAIN adm
    /\ epoch' = epoch + 1
    /\ adm' = IF Admitted(crs, uid, route) THEN (uid :> route) @@ adm ELSE adm
    /\ fn' = [op |-> "review", uid |-> uid, route |-> route, listed |-> crs,
              admitted |-> Admitted(crs, uid, route)]
    /\ UNCHANGED <<crs, cms, rc, watch, config>>

\* the API server persists an admitted object
AdmPersist(uid) ==
    /\ uid \in DOMAIN adm
    /\ crs' = (uid :> adm[uid]) @@ crs
    /\ adm' = Drop(adm, uid)
    /\ UNCHANGED <<cms, rc, epoch, watch, config, fn>>

\* ValidateDelete admits every delete
AdmDelete(uid) ==
    /\ epoch < MaxRequests
    /\ uid \in DOMAIN crs
    /\ epoch' = epoch + 1
    /\ crs' = Drop(crs, uid)
    /\ UNCHANGED <<cms, rc, watch, config, adm, fn>>

AdmNext ==
    \/ \E uid \in AdmUids : \E route \in Candidates(uid) : AdmReview(uid, route)
    \/ \E uid \in AdmUids : AdmPersist(uid)
    \/ \E uid \in AdmUids : AdmDelete(uid)

AdmissionSpec == AdmInit /\ [][AdmNext]_vars

-----------------------------------------------------------------------------
(* Admission in a cluster that also holds gateway-API HTTPRoutes: the two
   webhooks and the two directions of the conflict detector.  The Store crs
   holds both kinds, CustomHTTPRoutes under GwCustomUids and HTTPRoutes under
   GwHttpUids. *)

PathMatchPathPrefix == "PathPrefix"
PathMatchExact == "Exact"
PathMatchRegularExpression == "RegularExpression"

\* gatewayv1.HTTPPathMatch

HTTPPathMatch(type, value) == [Type |-> type, Value |-> value]

\* gatewayv1.HTTPRouteMatch: headers and queryParams are <<name, value>>
HTTPRouteMatch(path, method, headers, queryParams) ==
    [Path |-> path, Method |-> method, Headers |-> headers, QueryParams |-> queryParams]

\* gatewayv1.HTTPRoute: hostnames and rules, each rule the sequence of its
\* matches
HTTPRoute(hostnames, rules) == [hostnames |-> hostnames, rules |-> rules]

gatewayHostnames(hr) == hr.hostnames

\* sort.Slice by lower-cased name; a slice of at most 12 entries is sorted by
\* insertion, which keeps entries of equal lower-cased names in their order
RECURSIVE sortByName(_)
sortByName(entries) ==
    IF entries = <<>> THEN <<>>
    ELSE LET least == CHOOSE i \in 1..Len(entries) :
                          \A j \in 1..Len(entries) :
                              \/ StrLess(ToLower(entries[i][1]), ToLower(entries[j][1]))
                              \/ (ToLower(entries[i][1]) = ToLower(entries[j][1]) /\ i <= j)
         IN  <<entries[least]>> \o sortByName(Remove(entries, least))

\* the routeMatch of one HTTPRouteMatch
httpRouteMatch(m) ==
    [PathType |-> IF m.Path # Nil /\ m.Path[1].Type # Nil THEN m.Path[1].Type[1]
                  ELSE PathMatchPathPrefix,
     Path |-> IF m.Path # Nil /\ m.Path[1].Value # Nil THEN normalizePath(m.Path[1].Value[1])
              ELSE <<"/">>,
     Method |-> IF m.Method # Nil THEN m.Method[1] ELSE <<>>,
     Headers |-> sortByName(m.Headers),
     QueryParams |-> sortByName(m.QueryParams)]

RECURSIVE httpRuleMatches(_)
httpRuleMatches(rules) ==
    IF rules = <<>> THEN <<>>
    ELSE (IF Len(Head(rules)) = 0 THEN <<routeMatch(PathMatchPathPrefix, <<"/">>)>>
          ELSE [i \in 1..Len(Head(rules)) |-> httpRouteMatch(Head(rules)[i])])
         \o httpRuleMatches(Tail(rules))

\* extractHTTPRouteMatches
extractHTTPRouteMatches(hr) ==
    httpRuleMatches(hr.rules)
    \o (IF Len(hr.rules) = 0 THEN <<routeMatch(PathMatchPathPrefix, <<"/">>)>> ELSE <<>>)

\* the second loop of CheckCustomHTTPRouteHostnames, over the listed
\* HTTPRoutes: TRUE for a conflict
conflictsWithHTTPRoutes(httpRoutes, route) ==
    /\ Len(route.hostnames) # 0
    /\ \E hr \in DOMAIN httpRoutes :
          /\ Len(gatewayHostnames(httpRoutes[hr])) # 0
          /\ Len(findOverlap(toSet(route.hostnames), gatewayHostnames(httpRoutes[hr]))) # 0
          /\ Len(findRouteMatchOverlap(extractCustomRouteMatches(route),
                                       extractHTTPRouteMatches(httpRoutes[hr]))) > 0

\* a check of an HTTPRoute that compares the paths only when the match of the
\* HTTPRoute has no method, no header and no query parameter
CheckHTTPRoutePlainMatches(customRoutes, httpRoute) ==
    /\ Len(gatewayHostnames(httpRoute)) # 0
    /\ \E cr \in DOMAIN customRoutes :
          /\ Len(findOverlap(toSet(gatewayHostnames(httpRoute)), customRoutes[cr].hostnames)) # 0
          /\ Len(findRouteMatchOverlap(
                     SelectSeq(extractHTTPRouteMatches(httpRoute),
                               LAMBDA ma : ma.Method = <<>> /\ ma.Headers = <<>>
                                           /\ ma.QueryParams = <<>>),
                     extractCustomRouteMatches(customRoutes[cr]))) > 0

\* CheckHTTPRouteHostnames against the listed CustomHTTPRoutes: TRUE for a
\* conflict
CheckHTTPRouteHostnames(customRoutes, httpRoute) ==
    /\ Len(gatewayHostnames(httpRoute)) # 0
    /\ \E cr \in DOMAIN customRoutes :
          /\ Len(findOverlap(toSet(gatewayHostnames(httpRoute)), customRoutes[cr].hostnames)) # 0
          /\ Len(findRouteMatchOverlap(extractHTTPRouteMatches(httpRoute),
                                       extractCustomRouteMatches(customRoutes[cr]))) > 0

GwCustomUids == {"p", "q"}
GwHttpUids == {"g", "h"}

\* the two List calls of the checker
customRoutesOf(store) == [u \in DOMAIN store \cap GwCustomUids |-> store[u]]
httpRoutesOf(store) == [u \in DOMAIN store \cap GwHttpUids |-> store[u]]

Get == <<"G", "E", "T">>

crGw(name, target, hostnames, type, path) ==
    CustomHTTPRoute(Ns1, name, target, hostnames, NoPrefixes,
        <<Rule(<<PathMatch(path, type, 0)>>, Svc(Ns1), NoPrefixes)>>)

\* the CustomHTTPRoutes the users submit, by uid
GwCustoms(uid) ==
    IF uid = "p"
    THEN {crGw(<<"p">>, TargetT, <<HostA>>, MatchTypePathPrefix, ApiPath),
          crGw(<<"p">>, TargetT, <<HostA, HostB>>, MatchTypePathPrefix, <<"/">>),
          crGw(<<"p">>, TargetT, <<>>, MatchTypePathPrefix, <<"/">>)}
    ELSE {crGw(<<"q">>, TargetU, <<HostB>>, MatchTypeExact, ApiPath \o <<"/">>),
          crGw(<<"q">>, TargetU, <<HostA>>, MatchTypeRegex, ApiPath),
          crGw(<<"q">>, TargetU, <<HostA>>, MatchTypePathPrefix, <<"/", "x">>)}

\* the HTTPRoutes the users submit, by uid: no rules; a rule without matches
\* and no hostname; a match with a method, headers of equal lower-cased names
\* and a nil path; a prefix with a trailing slash and a query parameter; an
\* Exact path; a regular expression
GwHTTPRoutes(uid) ==
    IF uid = "g"
    THEN {HTTPRoute(<<HostA>>, <<>>),
          HTTPRoute(<<>>, <<<<>>>>),
          HTTPRoute(<<HostB, HostA>>,
              <<<<HTTPRouteMatch(Nil, Ptr(Get), <<<<<<"H">>, <<"1">>>>, <<<<"h">>, <<"2">>>>>>, <<>>)>>>>)}
    ELSE {HTTPRoute(<<HostA>>,
              <<<<HTTPRouteMatch(Ptr(HTTPPathMatch(Nil, Ptr(ApiPath \o <<"/">>))), Nil, <<>>,
                                 <<<<<<"h">>, <<"1">>>>>>)>>>>),
          HTTPRoute(<<HostB>>,
              <<<<HTTPRouteMatch(Ptr(HTTPPathMatch(Ptr(PathMatchExact), Ptr(ApiPath))), Nil, <<>>, <<>>)>>>>),
          HTTPRoute(<<HostA>>,
              <<<<HTTPRouteMatch(Ptr(HTTPPathMatch(Ptr(PathMatchRegularExpression), Ptr(ApiPath))), Nil,
                                 <<>>, <<>>)>>>>)}

\* ValidateCreate, ValidateUpdate of CustomHTTPRoute: TRUE when admitted
AdmittedCustom(store, uid, route) ==
    /\ ~Validate(route)
    /\ ~CheckCustomHTTPRouteHostnames(customRoutesOf(store), uid, route)
    /\ ~conflictsWithHTTPRoutes(httpRoutesOf(store), route)

\* the CustomHTTPRoute webhook reviews a create or an update
GwReviewCustom(uid, route) ==
    /\ epoch < MaxRequests
    /\ uid \notin DOMAIN adm
    /\ epoch' = epoch + 1
    /\ adm' = IF AdmittedCustom(crs, uid, route) THEN (uid :> route) @@ adm ELSE adm
    /\ fn' = [op |-> "custom", uid |-> uid, route |-> route, listed |-> crs,
              admitted |-> AdmittedCustom(crs, uid, route)]
    /\ UNCHANGED <<crs, cms, rc, watch, config>>

\* HTTPRouteValidator.Handle reviews a create or an update
GwReviewHTTPRoute(uid, httpRoute) ==
    /\ epoch < MaxRequests
    /\ uid \notin DOMAIN adm
    /\ epoch' = epoch + 1
    /\ adm' = IF CheckHTTPRouteHostnames(customRoutesOf(crs), httpRoute) THEN adm
              ELSE (uid :> httpRoute) @@ adm
    /\ fn' = [op |-> "httproute", uid |-> uid, route |-> httpRoute, listed |-> crs,
              admitted |-> ~CheckHTTPRouteHostnames(customRoutesOf(crs), httpRoute)]
    /\ UNCHANGED <<crs, cms, rc, watch, config>>

GwNext ==
    \/ \E uid \in GwCustomUids : \E route \in GwCustoms(uid) : GwReviewCustom(uid, route)
    \/ \E uid \in GwHttpUids : \E hr \in GwHTTPRoutes(uid) : GwReviewHTTPRoute(uid, hr)
    \/ \E uid \in GwCustomUids \cup GwHttpUids : AdmPersist(uid)
    \/ \E uid \in GwCustomUids \cup GwHttpUids : AdmDelete(uid)

GatewaySpec == AdmInit /\ [][GwNext]_vars

-----------------------------------------------------------------------------
(* Reloads of the loader over Stores that hold valid and invalid payloads *)

\* a Regex match whose pattern does not compile
crBadRegex ==
    CustomHTTPRoute(Ns1, <<"r", "e">>, TargetT, <<HostB>>, NoPrefixes,
        <<Rule(<<PathMatch(<<"(", "/", "b">>, MatchTypeRegex, 0)>>, Svc(Ns1), NoPrefixes)>>)

LdCatalogue == {crApi, crMix, crBadRegex}

LdLists ==
    {l \in UNION {[1..n -> LdCatalogue] : n \in 0..2} :
        \A i \in 1..Len(l) : \A j \in 1..Len(l) : i # j => l[i] # l[j]}

\* the Stores a publication of a list leaves for the loader's target
LdPublished ==
    UNION {{storeOf(partitionConfig(LoaderTarget, table)) :
              table \in aggregateTarget(routesByTarget(l, LoaderTarget))} : l \in LdLists}

\* the same Stores with one payload cut short
LdCorrupted ==
    UNION {{[st EXCEPT ![n].data = Truncated(@)] : n \in DOMAIN st} : st \in LdPublished}

MaxWrites == 3

LdInit ==
    /\ crs = <<>>
    /\ cms = <<>>
    /\ rc = RcIdle
    /\ epoch = 0
    /\ watch = [connected |-> TRUE, pending |-> FALSE, failures |-> 0]
    /\ config = <<>>
    /\ adm = <<>>
    /\ fn = FnIdle

\* the ConfigMaps of the target are written
LdWrite ==
    /\ epoch < MaxWrites
    /\ epoch' = epoch + 1
    /\ cms' \in LdPublished \cup LdCorrupted
    /\ fn' = [fn EXCEPT !.op = "write"]
    /\ UNCHANGED <<crs, rc, watch, config, adm>>

\* handleWatchEvents, one event: loadLocked under the lock
LdReload ==
    /\ fn.op = "write"
    /\ config' \in loadLockedConfig(config, cms, LoaderTarget)
    /\ fn' = [fn EXCEPT !.op = "reload", !.snapshot = config]
    /\ UNCHANGED <<crs, cms, rc, epoch, watch, adm>>

\* FindRoute after the reload
LdFindRoute ==
    /\ fn.op = "reload"
    /\ \E host \in {HostA, HostB} : \E path \in FnPaths :
          fn' = [fn EXCEPT !.op = "FindRoute", !.host = host, !.path = path,
                           !.result = FindRoute(config, host, path)]
    /\ UNCHANGED <<crs, cms, rc, epoch, watch, config, adm>>

LdNext == LdWrite \/ LdReload \/ LdFindRoute

ReloadSpec == LdInit /\ [][LdNext]_vars

----------------------------------------------------------------------------
(* The engine's server and its list filter: NewServer builds the loader from
   the ServerConfig and every load lists the ConfigMaps through the loader's
   namespace and label selector.  In this specification cms holds ConfigMaps
   of several namespaces with their labels, and rc is the server. *)

configMapManagedByValue == "customrouter-controller"

\* extproc.ServerConfig: the flags --target-name and
\* --routes-configmap-namespace
ServerConfig(targetName, routesNamespace) ==
    [TargetName |-> targetName, RoutesNamespace |-> routesNamespace]

\* routes.K8sLoaderConfig
K8sLoaderConfig(targetName, namespace) == [TargetName |-> targetName, Namespace |-> namespace]

\* a variant of NewServer that hands the namespace of the ServerConfig on
NewServerWithNamespace(serverConfig) ==
    K8sLoaderConfig(serverConfig.TargetName, serverConfig.RoutesNamespace)

\* the K8sLoaderConfig NewServer builds: Namespace keeps its zero value
NewServer(serverConfig) == K8sLoaderConfig(serverConfig.TargetName, <<>>)

\* a ConfigMap with its namespace and labels
LabelledConfigMap(namespace, managedBy, target, data) ==
    [namespace |-> namespace, managedBy |-> managedBy, target |-> target, data |-> data]

\* ConfigMaps(l.namespace).List with the label selector of loadLocked; the
\* empty namespace lists all namespaces
listSelected(store, loaderConfig) ==
    [n \in {m \in DOMAIN store :
              /\ loaderConfig.Namespace \in {<<>>, store[m].namespace}
              /\ store[m].managedBy = configMapManagedByValue
              /\ store[m].target = loaderConfig.TargetName} |-> store[n]]

SvRoutes(path) ==
    ToJSON((HostA :> <<Route(path, RouteTypePrefix, buildBackendString(Svc(Ns1)),
                             DefaultPriority, <<>>)>>))

\* the ConfigMaps of the cluster, by name: each holds one route of its own
SvConfigMap(name) ==
    CASE name = <<"k">> -> LabelledConfigMap(Ns1, configMapManagedByValue, TargetT, SvRoutes(<<"/", "k">>))
      [] name = <<"l">> -> LabelledConfigMap(Ns2, configMapManagedByValue, TargetT, SvRoutes(<<"/", "l">>))
      [] name = <<"m">> -> LabelledConfigMap(Ns1, configMapManagedByValue, TargetU, SvRoutes(<<"/", "m">>))
      [] OTHER -> LabelledConfigMap(Ns1, "helm", TargetT, SvRoutes(<<"/", "n">>))

SvNames == {<<"k">>, <<"l">>, <<"m">>, <<"n">>}

SvConfigs == {ServerConfig(TargetT, ns) : ns \in {<<>>, Ns1, Ns2}}

SvInit ==
    /\ crs = <<>>
    /\ cms = <<>>
    /\ rc \in {[started |-> FALSE, config |-> c, loader |-> Nil] : c \in SvConfigs}
    /\ epoch = 0
    /\ watch = <<>>
    /\ config = <<>>
    /\ adm = <<>>
    /\ fn = [op |-> "none"]

\* a ConfigMap is created
SvCreate(name) ==
    /\ name \notin DOMAIN cms
    /\ cms' = (name :> SvConfigMap(name)) @@ cms
    /\ fn' = [op |-> "write"]
    /\ UNCHANGED <<crs, rc, epoch, watch, config, adm>>

\* a ConfigMap is deleted
SvDelete(name) ==
    /\ name \in DOMAIN cms
    /\ cms' = Drop(cms, name)
    /\ fn' = [op |-> "write"]
    /\ UNCHANGED <<crs, rc, epoch, watch, config, adm>>

\* NewServer: the loader is built and loaded for the first time
SvNewServer ==
    /\ ~rc.started
    /\ LET loader == NewServer(rc.config) IN
       /\ rc' = [rc EXCEPT !.started = TRUE, !.loader = Ptr(loader)]
       /\ config' \in loadLockedConfig(config, listSelected(cms, loader), loader.TargetName)
       /\ fn' = [op |-> "load", store |-> cms]
    /\ UNCHANGED <<crs, cms, epoch, watch, adm>>

\* handleWatchEvents, one event: loadLocked
SvReload ==
    /\ rc.started
    /\ LET loader == rc.loader[1] IN
       /\ config' \in loadLockedConfig(config, listSelected(cms, loader), loader.TargetName)
       /\ fn' = [op |-> "load", store |-> cms]
    /\ UNCHANGED <<crs, cms, rc, epoch, watch, adm>>

SvNext ==
    \/ \E name \in SvNames : SvCreate(name)
    \/ \E name \in SvNames : SvDelete(name)
    \/ SvNewServer
    \/ SvReload

ServerSpec == SvInit /\ [][SvNext]_vars

----------------------------------------------------------------------------
(* The lock of the loader: K8sLoader.mu between the watch goroutine, which
   reloads, and the streams, which look routes up.  In this specification rc
   is the RWMutex l.mu, watch is the watch goroutine with its position in
   handleWatchEvents, and fn holds the position of every stream in
   FindRoute. *)

Streams == {1, 2}

\* sync.RWMutex: the writer that holds it and the number of readers
RWMutex(writer, readers) == [writer |-> writer, readers |-> readers]

LkStream(pc, path, result) == [pc |-> pc, path |-> path, result |-> result]

LkInit ==
    /\ crs = <<>>
    /\ cms \in LdPublished
    /\ rc = RWMutex(FALSE, 0)
    /\ epoch = 0
    /\ watch = [pc |-> "wait", pending |-> FALSE, listed |-> <<>>]
    /\ config = <<>>
    /\ adm = <<>>
    /\ fn = [s \in Streams |-> LkStream("idle", <<>>, NoRoute)]

\* the partitions of the target are written: the watch receives an event
LkWrite ==
    /\ epoch < MaxWrites
    /\ epoch' = epoch + 1
    /\ cms' \in LdPublished \ {cms}
    /\ watch' = [watch EXCEPT !.pending = TRUE]
    /\ UNCHANGED <<crs, rc, config, adm, fn>>

\* handleWatchEvents receives the event and calls l.mu.Lock()
LkEvent ==
    /\ watch.pc = "wait" /\ watch.pending
    /\ watch' = [watch EXCEPT !.pc = "Lock", !.pending = FALSE]
    /\ UNCHANGED <<crs, cms, rc, epoch, config, adm, fn>>

\* Lock returns once no reader holds the mutex
LkLock ==
    /\ watch.pc = "Lock"
    /\ rc.readers = 0
    /\ rc' = RWMutex(TRUE, 0)
    /\ watch' = [watch EXCEPT !.pc = "List"]
    /\ UNCHANGED <<crs, cms, epoch, config, adm, fn>>

\* loadLocked: the List call against the Store returns
LkList ==
    /\ watch.pc = "List"
    /\ watch' = [watch EXCEPT !.pc = "merge", !.listed = cms]
    /\ UNCHANGED <<crs, cms, rc, epoch, config, adm, fn>>

\* loadLocked merges, assigns l.config and handleWatchEvents calls Unlock
LkUnlock ==
    /\ watch.pc = "merge"
    /\ config' \in loadLockedConfig(config, watch.listed, LoaderTarget)
    /\ rc' = RWMutex(FALSE, 0)
    /\ watch' = [watch EXCEPT !.pc = "wait", !.listed = <<>>]
    /\ UNCHANGED <<crs, cms, epoch, adm, fn>>

\* a stream calls FindRoute, which calls l.mu.RLock()
LkFindRoute(s, path) ==
    /\ fn[s].pc = "idle"
    /\ fn' = [fn EXCEPT ![s] = LkStream("RLock", path, NoRoute)]
    /\ UNCHANGED <<crs, cms, rc, epoch, watch, config, adm>>

\* RLock returns when no writer holds the mutex or waits for it
LkRLock(s) ==
    /\ fn[s].pc = "RLock"
    /\ ~rc.writer /\ watch.pc # "Lock"
    /\ rc' = [rc EXCEPT !.readers = @ + 1]
    /\ fn' = [fn EXCEPT ![s].pc = "match"]
    /\ UNCHANGED <<crs, cms, epoch, watch, config, adm>>

\* FindRoute reads l.config, returns, and the deferred RUnlock runs
LkReturn(s) ==
    /\ fn[s].pc = "match"
    /\ rc' = [rc EXCEPT !.readers = @ - 1]
    /\ fn' = [fn EXCEPT ![s] = LkStream("idle", fn[s].path, FindRoute(config, HostA, fn[s].path))]
    /\ UNCHANGED <<crs, cms, epoch, watch, config, adm>>

LkNext ==
    \/ LkWrite
    \/ LkEvent
    \/ LkLock
    \/ LkList
    \/ LkUnlock
    \/ \E s \in Streams : \E path \in {ApiPath, <<"/", "x">>} : LkFindRoute(s, path)
    \/ \E s \in Streams : LkRLock(s)
    \/ \E s \in Streams : LkReturn(s)

LockSpec == LkInit /\ [][LkNext]_vars

----------------------------------------------------------------------------
(* The data-plane engine: one ext_proc stream served by Processor.Process *)

\* extractFirstIP: the first element of a comma-separated list, spaces trimmed
RECURSIVE TrimSpace(_)
TrimSpace(s) ==
    IF s # <<>> /\ Head(s) = " " THEN TrimSpace(Tail(s)) ELSE TrimRight(s, " ")

extractFirstIP(xff) ==
    IF xff = <<>> THEN <<>>
    ELSE LET idx == Index(xff, ",")
         IN  TrimSpace(IF idx = 0 THEN xff ELSE SubSeq(xff, 1, idx - 1))

\* strings.Split(s, sep) for a one-character sep
RECURSIVE Split(_, _)
Split(s, sep) ==
    LET idx == Index(s, sep)
    IN  IF idx = 0 THEN <<s>>
        ELSE <<SubSeq(s, 1, idx - 1)>> \o Split(SubSeq(s, idx + 1, Len(s)), sep)

\* splitPath: the non-empty segments of the path without its query string
splitPath(path) ==
    LET idx == Index(path, "?")
        p == IF idx # 0 THEN SubSeq(path, 1, idx - 1) ELSE path
    IN  SelectSeq(Split(p, "/"), LAMBDA seg : seg # <<>>)

Placeholder(name) == <<"$", "{">> \o name \o <<"}">>

RECURSIVE substituteSegments(_, _, _)
substituteSegments(result, segments, i) ==
    IF i > Len(segments) THEN result
    ELSE substituteSegments(
            ReplaceAll(result,
                       Placeholder(<<"p", "a", "t", "h", ".", "s", "e", "g", "m", "e", "n",
                                     "t", ".">> \o Itoa(i - 1)),
                       segments[i]),
            segments, i + 1)

\* substituteVariables: the placeholders are replaced one after the other
substituteVariables(value, v) ==
    IF value = <<>> THEN value
    ELSE LET r1 == ReplaceAll(value, Placeholder(<<"c", "l", "i", "e", "n", "t", "_", "i", "p">>),
                              v.clientIP)
             r2 == ReplaceAll(r1, Placeholder(<<"r", "e", "q", "u", "e", "s", "t", "_", "i", "d">>),
                              v.requestID)
             r3 == ReplaceAll(r2, Placeholder(<<"h", "o", "s", "t">>), v.host)
             r4 == ReplaceAll(r3, Placeholder(<<"p", "a", "t", "h">>), v.path)
             r5 == ReplaceAll(r4, Placeholder(<<"m", "e", "t", "h", "o", "d">>), v.method)
             r6 == ReplaceAll(r5, Placeholder(<<"s", "c", "h", "e", "m", "e">>), v.scheme)
         IN  substituteSegments(r6, v.pathSegments, 1)

Http == <<"h", "t", "t", "p">>
Https == <<"h", "t", "t", "p", "s">>

NoVars ==
    [clientIP |-> <<>>, requestID |-> <<>>, host |-> <<>>, path |-> <<>>,
     method |-> <<>>, scheme |-> <<>>, pathSegments |-> <<>>]

\* the header loop of processRequestHeaders: requestVars after each header
RECURSIVE extractHeaders(_, _)
extractHeaders(headers, v) ==
    IF headers = <<>> THEN v
    ELSE LET h == Head(headers)
             next ==
                CASE h.key = ":authority" -> [v EXCEPT !.host = h.value]
                  [] h.key = ":path" ->
                        [v EXCEPT !.path = h.value, !.pathSegments = splitPath(h.value)]
                  [] h.key = ":method" -> [v EXCEPT !.method = h.value]
                  [] h.key = ":scheme" -> [v EXCEPT !.scheme = h.value]
                  [] h.key = "x-forwarded-for" ->
                        [v EXCEPT !.clientIP = extractFirstIP(h.value)]
                  [] h.key = "x-request-id" -> [v EXCEPT !.requestID = h.value]
                  [] h.key = "x-forwarded-proto" ->
                        IF v.scheme = <<>> THEN [v EXCEPT !.scheme = h.value] ELSE v
                  [] OTHER -> v
         IN  extractHeaders(Tail(headers), next)

\* requestVars of a request: the scheme defaults to https
requestVars(headers) ==
    LET v == extractHeaders(headers, NoVars)
    IN  IF v.scheme = <<>> THEN [v EXCEPT !.scheme = Https] ELSE v

\* Route.ParseBackend
ParseBackend(backend) ==
    LET parts == Split(backend, ":")
    IN  IF Len(parts) = 2 THEN [host |-> parts[1], port |-> parts[2]]
        ELSE [host |-> backend, port |-> <<"8", "0">>]

AppendIfExistsOrAdd == "APPEND_IF_EXISTS_OR_ADD"
OverwriteIfExistsOrAdd == "OVERWRITE_IF_EXISTS_OR_ADD"

\* corev3.HeaderValueOption: an unset AppendAction is APPEND_IF_EXISTS_OR_ADD
HeaderValueOption(key, value, appendAction) ==
    [key |-> key, value |-> value, appendAction |-> appendAction]

\* extprocv3.ProcessingResponse: the variant, and for a HeadersResponse whether
\* it carries a CommonResponse and what that holds
ProcessingResponse(kind, status, common, setHeaders, removeHeaders) ==
    [kind |-> kind, status |-> status, common |-> common, clearRouteCache |-> common,
     setHeaders |-> setHeaders, removeHeaders |-> removeHeaders]

\* a response with an empty HeadersResponse or BodyResponse
EmptyResponse(kind) == ProcessingResponse(kind, 0, FALSE, <<>>, <<>>)

\* processRequest returned no response: nothing is sent on the stream
NilResponse == ProcessingResponse("nil", 0, FALSE, <<>>, <<>>)

buildRedirectResponse(action, v) ==
    LET scheme == IF action.RedirectScheme = <<>> THEN v.scheme ELSE action.RedirectScheme
        hostname == IF action.RedirectHostname = <<>> THEN stripPort(v.host)
                    ELSE action.RedirectHostname
        sub == substituteVariables(action.RedirectPath, v)
        path == IF sub = <<>> THEN v.path ELSE sub
        portStr ==
            IF action.RedirectPort > 0
               /\ ~ \/ (scheme = Http /\ action.RedirectPort = 80)
                    \/ (scheme = Https /\ action.RedirectPort = 443)
            THEN <<":">> \o Itoa(action.RedirectPort)
            ELSE <<>>
        redirectURL == scheme \o <<":", "/", "/">> \o hostname \o portStr \o path
        statusCode == IF action.RedirectStatusCode = 0 THEN 302
                      ELSE action.RedirectStatusCode
    IN  ProcessingResponse("ImmediateResponse", statusCode, FALSE,
                           <<HeaderValueOption("Location", redirectURL, AppendIfExistsOrAdd)>>,
                           <<>>)

\* the action loop of buildForwardResponse: finalAuthority, finalPath and the
\* header lists after each action
RECURSIVE applyActions(_, _, _)
applyActions(actions, v, st) ==
    IF actions = <<>> THEN st
    ELSE LET action == Head(actions)
             value == substituteVariables(action.Value, v)
             next ==
                CASE action.Type = ActionTypeRewrite ->
                        [st EXCEPT
                           !.finalPath = IF action.RewritePath # <<>>
                                         THEN substituteVariables(action.RewritePath, v)
                                         ELSE @,
                           !.finalAuthority = IF action.RewriteHostname # <<>>
                                              THEN action.RewriteHostname ELSE @]
                  [] action.Type = ActionTypeHeaderSet /\ action.HeaderName # <<>> ->
                        [st EXCEPT !.setHeaders =
                           Append(@, HeaderValueOption(action.HeaderName, value,
                                                       OverwriteIfExistsOrAdd))]
                  [] action.Type = ActionTypeHeaderAdd /\ action.HeaderName # <<>> ->
                        [st EXCEPT !.setHeaders =
                           Append(@, HeaderValueOption(action.HeaderName, value,
                                                       AppendIfExistsOrAdd))]
                  [] action.Type = ActionTypeHeaderRemove /\ action.HeaderName # <<>> ->
                        [st EXCEPT !.removeHeaders = Append(@, action.HeaderName)]
                  [] OTHER -> st
         IN  applyActions(Tail(actions), v, next)

Outbound == <<"o", "u", "t", "b", "o", "u", "n", "d", "|">>

buildForwardResponse(route, v, authority) ==
    LET backend == ParseBackend(route.backend)
        clusterName == Outbound \o backend.port \o <<"|", "|">> \o backend.host
        base ==
            [finalAuthority |-> route.backend, finalPath |-> v.path,
             setHeaders |->
                <<HeaderValueOption("x-customrouter-cluster", clusterName, AppendIfExistsOrAdd),
                  HeaderValueOption("x-original-authority", authority, AppendIfExistsOrAdd),
                  HeaderValueOption("x-customrouter-matched-path", route.path,
                                    AppendIfExistsOrAdd),
                  HeaderValueOption("x-customrouter-matched-type", route.type,
                                    AppendIfExistsOrAdd)>>,
             removeHeaders |-> <<>>]
        st == applyActions(route.actions, v, base)
        withAuthority ==
            st.setHeaders
              \o <<HeaderValueOption(":authority", st.finalAuthority, OverwriteIfExistsOrAdd),
                   HeaderValueOption("Host", st.finalAuthority, OverwriteIfExistsOrAdd)>>
        withPath ==
            IF st.finalPath # v.path
            THEN Append(withAuthority,
                        HeaderValueOption(":path", st.finalPath, OverwriteIfExistsOrAdd))
            ELSE withAuthority
    IN  ProcessingResponse("RequestHeaders", 0, TRUE, withPath, st.removeHeaders)

\* the redirect loop of processRequestHeaders taken from position 1: the only
\* Redirect it finds is one that heads the list
headRedirect(actions) ==
    IF actions # <<>> /\ actions[1].Type = ActionTypeRedirect THEN 1 ELSE 0

\* the redirect loop of processRequestHeaders: the position of the action it
\* returns on, 0 when the loop ends
firstRedirect(actions) ==
    IF \E i \in 1..Len(actions) : actions[i].Type = ActionTypeRedirect
    THEN CHOOSE i \in 1..Len(actions) :
            /\ actions[i].Type = ActionTypeRedirect
            /\ \A j \in 1..(i - 1) : actions[j].Type # ActionTypeRedirect
    ELSE 0

HeaderValue(headers, key) ==
    IF \E i \in 1..Len(headers) : headers[i].key = key
    THEN headers[CHOOSE i \in 1..Len(headers) :
                    headers[i].key = key /\ \A j \in (i + 1)..Len(headers) : headers[j].key # key].value
    ELSE <<>>

\* processRequestHeaders: the response, with the lookup it was built from
processRequestHeaders(hosts, headers) ==
    LET v == requestVars(headers)
        authority == HeaderValue(headers, ":authority")
        found == FindRoute(hosts, authority, HeaderValue(headers, ":path"))
        idx == firstRedirect(found.route.actions)
        resp == IF ~found.found THEN EmptyResponse("RequestHeaders")
                ELSE IF idx # 0 THEN buildRedirectResponse(found.route.actions[idx], v)
                ELSE buildForwardResponse(found.route, v, authority)
    IN  [resp |-> resp, vars |-> v, authority |-> authority, result |-> found]

\* processRequest on a message that is not RequestHeaders
processRequest(kind) ==
    CASE kind = "ResponseHeaders" -> EmptyResponse("ResponseHeaders")
      [] kind = "RequestBody" -> EmptyResponse("RequestBody")
      [] kind = "ResponseBody" -> EmptyResponse("ResponseBody")
      [] OTHER -> NilResponse

(* The routes and requests of the stream *)

EgBackend == buildBackendString(Svc(Ns1))

HostC == <<"c">>

EgRows ==
    <<Route(<<"/", "r">>, RouteTypeExact, EgBackend, DefaultPriority,
            <<Redirect(<<>>, <<>>, <<"/", "n">>, 0, 301),
              HeaderAction(ActionTypeHeaderSet, <<"x">>, <<"y">>)>>),
      Route(<<"/", "s">>, RouteTypeExact, EgBackend, DefaultPriority,
            <<HeaderAction(ActionTypeHeaderSet, <<"x">>, <<"y">>),
              Rewrite(<<"/", "q">>, HostC),
              Redirect(<<>>, <<>>, <<"/", "n">>, 0, 301)>>),
      Route(<<"/", "t">>, RouteTypeExact, EgBackend, DefaultPriority,
            <<Redirect(Http, HostC, <<>>, 8080, 0),
              Redirect(<<>>, <<>>, <<"/", "z">>, 0, 308)>>),
      Route(<<"/", "b">>, RouteTypePrefix, EgBackend, DefaultPriority,
            <<Rewrite(<<"/", "c", "/", "b">>, <<>>)>>),
      Route(<<"/", "v">>, RouteTypePrefix, EgBackend, DefaultPriority,
            <<Rewrite(<<"/", "w", "/">> \o Placeholder(<<"p", "a", "t", "h", ".", "s", "e",
                                                         "g", "m", "e", "n", "t", ".", "1">>),
                      <<>>)>>),
      Route(<<"/", "h">>, RouteTypePrefix, EgBackend, DefaultPriority,
            <<Rewrite(<<>>, HostC),
              HeaderAction(ActionTypeHeaderAdd, <<"x">>, Placeholder(<<"h", "o", "s", "t">>)),
              HeaderAction(ActionTypeHeaderRemove, <<"y">>, <<>>)>>),
      Route(<<"/", "p">>, RouteTypePrefix, EgBackend, DefaultPriority, <<>>)>>

\* the snapshots the loader holds for these rows
EgTables == {[h \in {HostA} |-> rows] : rows \in sortRoutes(EgRows)}

EgAuthorities == {HostA, HostA \o <<":", "8", "0">>, HostB}

EgPaths ==
    {<<"/", "r">>, <<"/", "s">>, <<"/", "t">>, <<"/", "b">>, <<"/", "b", "/", "p", "?", "x">>,
     <<"/", "v", "/", "k">>, <<"/", "v", "/", "k", "?", "x">>, <<"/", "h">>, <<"/", "p">>,
     <<"/", "p", "?", "x">>, <<"/", "z">>}

\* the header lists of a RequestHeaders message
EgHeaders(authority, path) ==
    {<<[key |-> ":authority", value |-> authority], [key |-> ":path", value |-> path],
       [key |-> ":method", value |-> Get]>>,
     <<[key |-> ":authority", value |-> authority], [key |-> ":path", value |-> path],
       [key |-> ":method", value |-> Get], [key |-> ":scheme", value |-> Http],
       [key |-> "x-forwarded-for", value |-> <<"1", ",", " ", "2">>],
       [key |-> "x-request-id", value |-> <<"7">>]>>}

EgRequests == UNION {EgHeaders(a, p) : a \in EgAuthorities, p \in EgPaths}

OtherMessages ==
    {"ResponseHeaders", "RequestBody", "ResponseBody", "RequestTrailers", "ResponseTrailers"}

MaxMessages == 3

EgIdle ==
    [op |-> "open", received |-> 0, sent |-> 0, last |-> NilResponse, headers |-> <<>>,
     vars |-> NoVars, authority |-> <<>>, result |-> NoRoute, before |-> <<>>]

EgInit ==
    /\ crs = <<>>
    /\ cms = <<>>
    /\ rc = <<>>
    /\ epoch = 0
    /\ watch = <<>>
    /\ config \in EgTables
    /\ adm = <<>>
    /\ fn = EgIdle

\* Process, one iteration: a RequestHeaders message is received and answered
EgRequestHeaders ==
    /\ fn.op # "closed"
    /\ fn.received < MaxMessages
    /\ \E headers \in EgRequests :
          LET out == processRequestHeaders(config, headers)
          IN  fn' = [fn EXCEPT !.op = "RequestHeaders", !.received = @ + 1,
                               !.sent = @ + 1, !.last = out.resp, !.headers = headers,
                               !.vars = out.vars, !.authority = out.authority,
                               !.result = out.result, !.before = config]
    /\ UNCHANGED <<crs, cms, rc, epoch, watch, config, adm>>

\* Process, one iteration: a message of another kind is received; a response
\* is sent when processRequest returns one
EgOtherMessage ==
    /\ fn.op # "closed"
    /\ fn.received < MaxMessages
    /\ \E kind \in OtherMessages :
          LET resp == processRequest(kind)
          IN  fn' = [fn EXCEPT !.op = kind, !.received = @ + 1,
                               !.sent = IF resp = NilResponse THEN @ ELSE @ + 1,
                               !.last = resp, !.before = config]
    /\ UNCHANGED <<crs, cms, rc, epoch, watch, config, adm>>

\* Process: Recv returns io.EOF
EgClose ==
    /\ fn.op # "closed"
    /\ fn' = [fn EXCEPT !.op = "closed"]
    /\ UNCHANGED <<crs, cms, rc, epoch, watch, config, adm>>

EgNext == EgRequestHeaders \/ EgOtherMessage \/ EgClose

EngineSpec == EgInit /\ [][EgNext]_vars

----------------------------------------------------------------------------
(* Reconcile with its status conditions: CustomHTTPRouteReconciler.Reconcile,
   one request at a time, over a Store whose partition writes can fail *)

ConditionTypeReconciled == "Reconciled"
ConditionTypeConfigMapSynced == "ConfigMapSynced"

ConditionReasonReconcileSuccess == "ReconcileSuccess"
ConditionReasonReconcileError == "ReconcileError"
ConditionReasonConfigMapSuccess == "ConfigMapSyncSuccess"
ConditionReasonConfigMapError == "ConfigMapSyncError"

\* controller.UpdateCondition: the condition of the type is created or updated
UpdateCondition(conditions, type, status, reason) ==
    (type :> [status |-> status, reason |-> reason]) @@ conditions

UpdateConditionReconciled(conditions) ==
    UpdateCondition(conditions, ConditionTypeReconciled, "True",
                    ConditionReasonReconcileSuccess)

UpdateConditionReconcileFailed(conditions) ==
    UpdateCondition(conditions, ConditionTypeReconciled, "False",
                    ConditionReasonReconcileError)

UpdateConditionConfigMapSynced(conditions) ==
    UpdateCondition(conditions, ConditionTypeConfigMapSynced, "True",
                    ConditionReasonConfigMapSuccess)

UpdateConditionConfigMapFailed(conditions) ==
    UpdateCondition(conditions, ConditionTypeConfigMapSynced, "False",
                    ConditionReasonConfigMapError)

ManyNames(first, n) == [i \in 1..n |-> first \o Itoa(i)]

\* two hostnames, 501 matches and 499 prefixes: an estimate of 501,000 routes
crExplode ==
    CustomHTTPRoute(Ns1, <<"x">>, TargetT, <<HostA, HostB>>,
        PathPrefixes(ManyNames(<<"p">>, 499), PathPrefixPolicyOptional, <<>>),
        <<Rule([i \in 1..501 |-> PathMatch(<<"/", "m">> \o Itoa(i), MatchTypePathPrefix, 0)],
               Svc(Ns1), NoPrefixes)>>)

\* a stored spec that Validate rejects: a rule without backendRefs and without
\* a redirect
crInvalid ==
    CustomHTTPRoute(Ns1, <<"i">>, TargetT, <<HostA>>, NoPrefixes,
        <<Rule(<<PathMatch(<<"/", "i">>, MatchTypeExact, 0)>>, <<>>, NoPrefixes)>>)

StUids == {"a", "x", "o", "v"}

\* a new object: no status conditions yet
StObject(uid) ==
    ("status" :> <<>>) @@
        (CASE uid = "a" -> crApi
           [] uid = "x" -> crExplode
           [] uid = "o" -> crOther
           [] OTHER -> crInvalid)

StNone == [uid |-> "", outcome |-> "none", conditions |-> <<>>, store |-> <<>>]

StIdle == [queue |-> {}, failures |-> 0, last |-> StNone]

StInit ==
    /\ crs = <<>>
    /\ cms = <<>>
    /\ rc = StIdle
    /\ epoch = 0
    /\ watch = <<>>
    /\ config = <<>>
    /\ adm = <<>>
    /\ fn = <<>>

\* a user creates an object: the controller's watch enqueues a request
StCreate(uid) ==
    /\ epoch < MaxEpoch
    /\ uid \notin DOMAIN crs
    /\ crs' = (uid :> StObject(uid)) @@ crs
    /\ rc' = [rc EXCEPT !.queue = @ \cup {uid}]
    /\ epoch' = epoch + 1
    /\ UNCHANGED <<cms, watch, config, adm, fn>>

\* a user deletes an object
StDelete(uid) ==
    /\ epoch < MaxEpoch
    /\ uid \in DOMAIN crs
    /\ ~crs[uid].deleting
    /\ crs' = IF crs[uid].finalizer THEN [crs EXCEPT ![uid].deleting = TRUE]
              ELSE Drop(crs, uid)
    /\ rc' = [rc EXCEPT !.queue = @ \cup {uid}]
    /\ epoch' = epoch + 1
    /\ UNCHANGED <<cms, watch, config, adm, fn>>

\* the partitions rebuildAllConfigMaps computes, tabulated by the objects it
\* lists that are not being deleted (the finalizer and the status of an object
\* are not read)
StPlans ==
    UNION {UNION {{[live |-> S, partitions |-> plan] : plan \in rebuildPlans(routeList)} :
                  routeList \in listRoutes([u \in S |-> StObject(u)])} :
           S \in SUBSET StUids}

\* rebuildAllConfigMaps on a Store: the error returned and the ConfigMaps left
\* behind.  Without an error every partition is upserted and every other
\* managed ConfigMap deleted; an upsert that fails ends the rebuild with the
\* earlier partitions written.
rebuildAllConfigMaps(store, written, canFail) ==
    UNION {{[err |-> FALSE, cms |-> storeOf(x.partitions)]}
           \cup {[err |-> TRUE,
                   cms |-> storeOf(SubSeq(x.partitions, 1, k - 1)) @@ written] :
                   k \in IF canFail THEN 1..Len(x.partitions) ELSE {}} :
           x \in {y \in StPlans : y.live = {u \in DOMAIN store : ~store[u].deleting}}}

\* a workqueue that forgets every request Reconcile has returned for
dropRequest(queue, uid, err) == queue \ {uid}

\* the workqueue after Reconcile returns: a request whose Reconcile returned an
\* error is added again (rate limited)
requeue(queue, uid, err) == IF err THEN queue ELSE queue \ {uid}

StResult(store, written, err, outcome, conditions) ==
    [crs |-> store, cms |-> written, err |-> err, outcome |-> outcome,
     conditions |-> conditions]

\* Reconcile of the request uid: the Store it leaves, the error it returns, and
\* the conditions it has set on its copy of the object
Reconcile(store, written, uid, canFail) ==
    IF uid \notin DOMAIN store
    THEN {StResult(store, written, FALSE, "gone", <<>>)}
    ELSE IF store[uid].deleting
    THEN IF ~store[uid].finalizer
         THEN {StResult(store, written, FALSE, "deleted", <<>>)}
         ELSE {IF r.err
               THEN StResult(store, r.cms, TRUE, "failed", store[uid].status)
               ELSE StResult(Drop(store, uid), r.cms, FALSE, "deleted", store[uid].status) :
               r \in rebuildAllConfigMaps(store, written, canFail)}
    ELSE LET live == withFinalizer(store, uid)
             object == live[uid]
         IN  IF Validate(object)
             THEN \* the conditions are set on the copy; Reconcile returns before
                  \* the deferred status update is registered
                  {StResult(live, written, FALSE, "invalid",
                            UpdateConditionConfigMapFailed(
                                UpdateConditionReconciled(object.status)))}
             ELSE {LET conditions ==
                         IF r.err
                         THEN UpdateConditionConfigMapFailed(
                                  UpdateConditionReconciled(object.status))
                         ELSE UpdateConditionConfigMapSynced(
                                  UpdateConditionReconciled(object.status))
                   IN  \* the deferred UpdateStatusWithRetry writes the conditions
                       StResult([live EXCEPT ![uid].status = conditions], r.cms, r.err,
                                IF r.err THEN "failed" ELSE "ok", conditions) :
                   r \in rebuildAllConfigMaps(live, written, canFail)}

\* the worker takes a request from the queue and runs Reconcile
StReconcile ==
    \E uid \in rc.queue :
    \E out \in Reconcile(crs, cms, uid, rc.failures < MaxFailures) :
       /\ crs' = out.crs
       /\ cms' = out.cms
       /\ rc' = [queue |-> requeue(rc.queue, uid, out.err),
                 failures |-> IF out.err THEN rc.failures + 1 ELSE rc.failures,
                 last |-> [uid |-> uid, outcome |-> out.outcome,
                           conditions |-> out.conditions, store |-> out.crs]]
       /\ UNCHANGED <<epoch, watch, config, adm, fn>>

StNext ==
    \/ \E uid \in StUids : StCreate(uid)
    \/ \E uid \in StUids : StDelete(uid)
    \/ StReconcile

\* the workqueue hands every request it holds to the worker
ReconcileSpec == StInit /\ [][StNext]_vars /\ WF_vars(StReconcile)

----------------------------------------------------------------------------
(* The read-modify-write sequences of the control plane against one object of
   the Store, with a concurrent writer.  In this specification cms is the
   object with its resourceVersion and rc is the sequence in progress. *)

\* wait.Backoff.Steps of the three retry wrappers
Steps == 5

\* the concurrent writes of a run
MaxConflicts == 6

\* the sequences and their attempts: retry.RetryOnConflict runs the function up
\* to Steps times; upsertUnstructured is not wrapped and runs once
RmwSequences ==
    {"upsertSingleConfigMap", "UpdateWithRetry", "UpdateStatusWithRetry", "upsertUnstructured"}

\* a variant in which upsertUnstructured is wrapped like the others
attemptsWrapped(sequence) == Steps

attemptsOf(sequence) == IF sequence = "upsertUnstructured" THEN 1 ELSE Steps

RtIdle == [sequence |-> "", pc |-> "idle", attempts |-> 0, seen |-> 0, conflicts |-> 0]

RtInit ==
    /\ crs = <<>>
    /\ cms = [resourceVersion |-> 1]
    /\ rc = RtIdle
    /\ epoch = 0
    /\ watch = <<>>
    /\ config = <<>>
    /\ adm = <<>>
    /\ fn = [op |-> "none"]

\* a reconciliation starts one of the sequences
RtStart(sequence) ==
    /\ rc.pc = "idle"
    /\ rc' = [RtIdle EXCEPT !.sequence = sequence, !.pc = "Get"]
    /\ UNCHANGED <<crs, cms, epoch, watch, config, adm, fn>>

\* Get reads the object
RtGet ==
    /\ rc.pc = "Get"
    /\ rc' = [rc EXCEPT !.pc = "Update", !.seen = cms.resourceVersion]
    /\ UNCHANGED <<crs, cms, epoch, watch, config, adm, fn>>

\* another writer updates the object
RtOtherWriter ==
    /\ epoch < MaxConflicts
    /\ epoch' = epoch + 1
    /\ cms' = [cms EXCEPT !.resourceVersion = @ + 1]
    /\ UNCHANGED <<crs, rc, watch, config, adm, fn>>

\* Update with the resourceVersion that was read: it succeeds, or it returns a
\* conflict, after which the sequence is run again when attempts are left
RtUpdate ==
    /\ rc.pc = "Update"
    /\ IF rc.seen = cms.resourceVersion
       THEN /\ cms' = [cms EXCEPT !.resourceVersion = @ + 1]
            /\ rc' = [rc EXCEPT !.pc = "done", !.attempts = @ + 1]
       ELSE /\ cms' = cms
            /\ rc' = [rc EXCEPT !.attempts = @ + 1, !.conflicts = @ + 1,
                                !.pc = IF rc.attempts + 1 < attemptsOf(rc.sequence)
                                       THEN "Get" ELSE "failed"]
    /\ UNCHANGED <<crs, epoch, watch, config, adm, fn>>

RtNext ==
    \/ \E sequence \in RmwSequences : RtStart(sequence)
    \/ RtGet
    \/ RtOtherWriter
    \/ RtUpdate

RetrySpec == RtInit /\ [][RtNext]_vars

----------------------------------------------------------------------------
(* The catch-all EnvoyFilters: the attachment compiler of the
   ExternalProcessorAttachment controller and the catch-all pass of the
   CustomHTTPRoute controller.  The Store crs holds the CustomHTTPRoutes
   under CaRouteKeys and the ExternalProcessorAttachment under CaEpaKeys; cms
   holds the EnvoyFilters; rc is the CustomHTTPRoute worker, which lists
   first and writes afterwards, so the other controller and the users can
   act in between. *)

extProcFilterSuffix == "-extproc"
routesFilterSuffix == "-routes"
catchAllFilterSuffix == "-catchall"

\* v1alpha1.CatchAllRouteConfig of an attachment
CatchAllRouteConfig(hostnames, backendRef) ==
    [Hostnames |-> hostnames, BackendRef |-> backendRef]

\* a CustomHTTPRoute with its spec.catchAllRoute (Nil or a pointer to its
\* BackendRef)
CatchAllHTTPRoute(namespace, name, hostnames, catchAllRoute) ==
    [namespace |-> namespace, name |-> name, deleting |-> FALSE,
     hostnames |-> hostnames, catchAllRoute |-> catchAllRoute]

\* an ExternalProcessorAttachment: metadata and spec.catchAllRoute
ExternalProcessorAttachment(namespace, name, uid, catchAllRoute) ==
    [namespace |-> namespace, name |-> name, uid |-> uid, deleting |-> FALSE,
     finalizer |-> FALSE, catchAllRoute |-> catchAllRoute]

CatchAllEntry(hostname, backendRef) == [Hostname |-> hostname, BackendRef |-> backendRef]

\* m[hostname] = backendRef for every hostname of the list, in its order
RECURSIVE putAll(_, _, _)
putAll(m, hostnames, backendRef) ==
    IF hostnames = <<>> THEN m
    ELSE putAll((Head(hostnames) :> backendRef) @@ m, Tail(hostnames), backendRef)

\* the loop over routeList.Items: a later item overwrites an earlier one
RECURSIVE collectHostnameMap(_, _)
collectHostnameMap(items, hostnameMap) ==
    IF items = <<>> THEN hostnameMap
    ELSE LET route == Head(items) IN
         IF route.deleting \/ route.catchAllRoute = Nil
         THEN collectHostnameMap(Tail(items), hostnameMap)
         ELSE collectHostnameMap(Tail(items),
                  putAll(hostnameMap, route.hostnames, route.catchAllRoute[1]))

\* the entries of a map, sorted by hostname
sortedEntries(m) ==
    LET hs == SortStrings(DOMAIN m)
    IN [i \in 1..Len(hs) |-> CatchAllEntry(hs[i], m[hs[i]])]

collectCatchAllEntries(routeList) == sortedEntries(collectHostnameMap(routeList, <<>>))

RECURSIVE putEntries(_, _)
putEntries(m, entries) ==
    IF entries = <<>> THEN m
    ELSE putEntries((Head(entries).Hostname :> Head(entries).BackendRef) @@ m, Tail(entries))

\* the mutant of the next one: the route entries written over the
\* attachment's own
routesOverride(merged, epa) ==
    IF epa.catchAllRoute # Nil
    THEN merged @@ putAll(<<>>, epa.catchAllRoute[1].Hostnames, epa.catchAllRoute[1].BackendRef)
    ELSE merged

\* the attachment's own catchAllRoute written over a map
epaOverrides(merged, epa) ==
    IF epa.catchAllRoute # Nil
    THEN putAll(merged, epa.catchAllRoute[1].Hostnames, epa.catchAllRoute[1].BackendRef)
    ELSE merged

mergeWithEPACatchAll(routeEntries, epa) ==
    sortedEntries(epaOverrides(putEntries(<<>>, routeEntries), epa))

\* listed is Nil when the List of the CustomHTTPRoutes failed
collectMergedCatchAllEntries(listed, attachment) ==
    sortedEntries(epaOverrides(
        IF listed = Nil THEN <<>> ELSE collectHostnameMap(listed[1], <<>>), attachment))

filterKey(epa, suffix) == <<epa.namespace, epa.name, suffix>>

\* ".svc.cluster.local"
ClusterLocal == SubSeq(SvcSuffix, 1, Len(SvcSuffix) - 1)

\* the clusterName of CustomHTTPRouteReconciler.reconcileCatchAllEnvoyFilter
sprintfClusterName(ref) ==
    Outbound \o Itoa(ref.port) \o <<"|", "|">> \o ref.name \o <<".">> \o ref.namespace
        \o ClusterLocal

buildCatchAllClusterName(ref) ==
    IF Contains(ref.name, <<".">>)
    THEN Outbound \o Itoa(ref.port) \o <<"|", "|">> \o ref.name
    ELSE Outbound \o Itoa(ref.port) \o <<"|", "|">> \o ref.name \o <<".">> \o ref.namespace
             \o ClusterLocal

\* one VIRTUAL_HOST patch per entry: its domain and the cluster of its
\* default route
VirtualHost(domain, cluster) == [domain |-> domain, cluster |-> cluster]

\* an EnvoyFilter: its owner reference and, for -catchall, the entries it was
\* built from and its virtual hosts
EnvoyFilter(epa, entries, virtualHosts) ==
    [owner |-> epa.uid, entries |-> entries, virtualHosts |-> virtualHosts]

\* Get, then Create or Update
upsertUnstructured(store, key, obj) == (key :> obj) @@ store

\* CustomHTTPRouteReconciler.reconcileCatchAllEnvoyFilter
reconcileCatchAllEnvoyFilter(store, epa, entries) ==
    upsertUnstructured(store, filterKey(epa, catchAllFilterSuffix),
        EnvoyFilter(epa, entries,
            [i \in 1..Len(entries) |->
                VirtualHost(entries[i].Hostname, sprintfClusterName(entries[i].BackendRef))]))

\* ExternalProcessorAttachmentReconciler.reconcileCatchAllEnvoyFilter
reconcileAttachmentCatchAllEnvoyFilter(store, attachment, entries) ==
    upsertUnstructured(store, filterKey(attachment, catchAllFilterSuffix),
        EnvoyFilter(attachment, entries,
            [i \in 1..Len(entries) |->
                VirtualHost(entries[i].Hostname, buildCatchAllClusterName(entries[i].BackendRef))]))

\* the mutant of the next one: the EnvoyFilter is left in place
keepCatchAllEnvoyFilter(store, epa) == store

deleteCatchAllEnvoyFilter(store, epa) == Drop(store, filterKey(epa, catchAllFilterSuffix))

\* ExternalProcessorAttachmentReconciler.reconcileEnvoyFilters
reconcileEnvoyFilters(store, attachment, listed) ==
    LET withExtProc == upsertUnstructured(store, filterKey(attachment, extProcFilterSuffix),
                           EnvoyFilter(attachment, <<>>, <<>>))
        withRoutes == upsertUnstructured(withExtProc, filterKey(attachment, routesFilterSuffix),
                          EnvoyFilter(attachment, <<>>, <<>>))
        mergedEntries == collectMergedCatchAllEntries(listed, attachment)
    IN IF Len(mergedEntries) > 0
       THEN reconcileAttachmentCatchAllEnvoyFilter(withRoutes, attachment, mergedEntries)
       ELSE deleteCatchAllEnvoyFilter(withRoutes, attachment)

deleteEnvoyFilters(store, attachment) ==
    Drop(Drop(Drop(store, filterKey(attachment, extProcFilterSuffix)),
              filterKey(attachment, routesFilterSuffix)),
         filterKey(attachment, catchAllFilterSuffix))

\* the loop of reconcileCatchAllFromRoutes over epaList.Items
RECURSIVE catchAllLoop(_, _, _)
catchAllLoop(store, entries, epaList) ==
    IF epaList = <<>> THEN store
    ELSE LET epa == Head(epaList)
             merged == mergeWithEPACatchAll(entries, epa)
         IN catchAllLoop(IF Len(merged) = 0
                         THEN deleteCatchAllEnvoyFilter(store, epa)
                         ELSE reconcileCatchAllEnvoyFilter(store, epa, merged),
                         entries, Tail(epaList))

CaRouteKeys == {"r1", "r2"}
CaEpaKeys == {"e"}
MaxCaOps == 4

CaB1 == BackendRef(<<"s">>, Ns1, 80)
CaB2 == BackendRef(<<"t", ".", "x">>, Ns1, 80)
CaB3 == BackendRef(<<"u">>, Ns2, 81)

\* r1 is n1/b and r2 is n1/a: the later key is the earlier (namespace, name)
CaRoutes(key) ==
    IF key = "r1"
    THEN {CatchAllHTTPRoute(Ns1, <<"b">>, <<HostA>>, Ptr(CaB1)),
          CatchAllHTTPRoute(Ns1, <<"b">>, <<HostA, HostB>>, Nil)}
    ELSE {CatchAllHTTPRoute(Ns1, <<"a">>, <<HostA, HostB>>, Ptr(CaB2)),
          CatchAllHTTPRoute(Ns1, <<"a">>, <<HostB>>, Ptr(CaB2))}

CaEpas(uid) ==
    {ExternalProcessorAttachment(Ns2, <<"e">>, uid, Nil),
     ExternalProcessorAttachment(Ns2, <<"e">>, uid, Ptr(CatchAllRouteConfig(<<HostA>>, CaB3)))}

caRoutesOf(store) == [k \in DOMAIN store \cap CaRouteKeys |-> store[k]]
caEpasOf(store) == [k \in DOMAIN store \cap CaEpaKeys |-> store[k]]

CaIdle == [pc |-> "idle", list |-> <<>>, epaList |-> <<>>]
CaUser == [op |-> "user"]

CaInit ==
    /\ crs = <<>>
    /\ cms = <<>>
    /\ rc = CaIdle
    /\ epoch = 0
    /\ watch = [connected |-> FALSE, pending |-> FALSE, failures |-> 0]
    /\ config = <<>>
    /\ adm = <<>>
    /\ fn = CaUser

\* a user creates a CustomHTTPRoute
CaCreateRoute(key, route) ==
    /\ epoch < MaxCaOps
    /\ key \notin DOMAIN crs
    /\ epoch' = epoch + 1
    /\ crs' = (key :> route) @@ crs
    /\ fn' = CaUser
    /\ UNCHANGED <<cms, rc, watch, config, adm>>

\* a user deletes a CustomHTTPRoute: it holds the controller's finalizer, so
\* it is marked and stays listed
CaDeleteRoute(key) ==
    /\ epoch < MaxCaOps
    /\ key \in DOMAIN crs /\ ~crs[key].deleting
    /\ epoch' = epoch + 1
    /\ crs' = [crs EXCEPT ![key].deleting = TRUE]
    /\ fn' = CaUser
    /\ UNCHANGED <<cms, rc, watch, config, adm>>

\* the finalizer of a deleting CustomHTTPRoute is removed
CaRouteGone(key) ==
    /\ key \in DOMAIN crs /\ crs[key].deleting
    /\ crs' = Drop(crs, key)
    /\ fn' = CaUser
    /\ UNCHANGED <<cms, rc, epoch, watch, config, adm>>

\* a user creates the attachment; the Store gives it a fresh UID
CaCreateEpa(key, epa) ==
    /\ epoch < MaxCaOps
    /\ key \notin DOMAIN crs
    /\ epoch' = epoch + 1
    /\ crs' = (key :> epa) @@ crs
    /\ fn' = CaUser
    /\ UNCHANGED <<cms, rc, watch, config, adm>>

\* a user deletes the attachment: with a finalizer it is marked, without one
\* it disappears
CaDeleteEpa(key) ==
    /\ epoch < MaxCaOps
    /\ key \in DOMAIN crs /\ ~crs[key].deleting
    /\ epoch' = epoch + 1
    /\ crs' = IF crs[key].finalizer THEN [crs EXCEPT ![key].deleting = TRUE]
              ELSE Drop(crs, key)
    /\ fn' = CaUser
    /\ UNCHANGED <<cms, rc, watch, config, adm>>

\* ExternalProcessorAttachmentReconciler.Reconcile of one attachment
CaEpaReconcile(key, listed) ==
    /\ key \in DOMAIN crs
    /\ LET attachment == crs[key] IN
       IF attachment.deleting
       THEN /\ attachment.finalizer
            /\ cms' = deleteEnvoyFilters(cms, attachment)
            /\ crs' = Drop(crs, key)
            /\ fn' = [op |-> "finalize", epa |-> attachment]
       ELSE /\ crs' = [crs EXCEPT ![key].finalizer = TRUE]
            /\ cms' = reconcileEnvoyFilters(cms, attachment, listed)
            /\ fn' = [op |-> "attachment", epa |-> attachment, listed |-> listed,
                      merged |-> collectMergedCatchAllEntries(listed, attachment),
                      before |-> cms]
    /\ UNCHANGED <<rc, epoch, watch, config, adm>>

\* rebuildAllConfigMaps lists the CustomHTTPRoutes and
\* reconcileCatchAllFromRoutes lists the attachments
CaList(routeList, epaList) ==
    /\ rc.pc = "idle"
    /\ rc' = [pc |-> "catchall", list |-> routeList, epaList |-> epaList]
    /\ fn' = CaUser
    /\ UNCHANGED <<crs, cms, epoch, watch, config, adm>>

\* reconcileCatchAllFromRoutes writes the EnvoyFilters of the listed
\* attachments
CaApply ==
    /\ rc.pc = "catchall"
    /\ LET entries == collectCatchAllEntries(rc.list) IN
       /\ cms' = catchAllLoop(cms, entries, rc.epaList)
       /\ fn' = [op |-> "routes", list |-> rc.list, entries |-> entries,
                 epaList |-> rc.epaList, before |-> cms]
    /\ rc' = CaIdle
    /\ UNCHANGED <<crs, epoch, watch, config, adm>>

\* the Store's garbage collector removes an EnvoyFilter whose owner reference
\* names no object of the Store
CaCollect(name) ==
    /\ name \in DOMAIN cms
    /\ \A k \in DOMAIN caEpasOf(crs) : crs[k].uid # cms[name].owner
    /\ cms' = Drop(cms, name)
    /\ fn' = CaUser
    /\ UNCHANGED <<crs, rc, epoch, watch, config, adm>>

CaNext ==
    \/ \E key \in CaRouteKeys : \E route \in CaRoutes(key) : CaCreateRoute(key, route)
    \/ \E key \in CaRouteKeys : CaDeleteRoute(key)
    \/ \E key \in CaRouteKeys : CaRouteGone(key)
    \/ \E key \in CaEpaKeys : \E epa \in CaEpas(epoch + 1) : CaCreateEpa(key, epa)
    \/ \E key \in CaEpaKeys : CaDeleteEpa(key)
    \/ \E key \in CaEpaKeys : \E listed \in {Nil} \cup {Ptr(l) : l \in listRoutes(caRoutesOf(crs))} :
            CaEpaReconcile(key, listed)
    \/ \E routeList \in listRoutes(caRoutesOf(crs)) : \E epaList \in listRoutes(caEpasOf(crs)) :
            CaList(routeList, epaList)
    \/ CaApply
    \/ \E name \in DOMAIN cms : CaCollect(name)

CatchAllSpec == CaInit /\ [][CaNext]_vars

----------------------------------------------------------------------------
(* normalizePath of the conflict detector applied to paths *)

MaxPathLen == 6

\* the paths over "/" and one letter, the empty path and the root included
NpPaths == UNION {[1..n -> {"/", "a"}] : n \in 0..MaxPathLen}

NpInit ==
    /\ crs = <<>>
    /\ cms = <<>>
    /\ rc = <<>>
    /\ epoch = 0
    /\ watch = <<>>
    /\ config = <<>>
    /\ adm = <<>>
    /\ fn \in {[op |-> "input", path |-> p, result |-> <<>>] : p \in NpPaths}

NpNormalize ==
    /\ fn.op = "input"
    /\ fn' = [op |-> "normalizePath", path |-> fn.path, result |-> normalizePath(fn.path)]
    /\ UNCHANGED <<crs, cms, rc, epoch, watch, config, adm>>

NormalizeSpec == NpInit /\ [][NpNormalize]_vars

----------------------------------------------------------------------------
(* The release of the objects marked for deletion: the two Reconcile functions
   up to their finalizer, with Store operations that fail a bounded number of
   times.  In this specification crs holds the CustomHTTPRoutes and the
   ExternalProcessorAttachments by key and rc the workqueues of the two
   controllers. *)

\* the Store operations that fail in a run
MaxStoreFailures == 2

RlKeys == {"route1", "route2", "attachment"}

\* a new object of the Store
RlObject == [finalizer |-> FALSE, deleting |-> FALSE]

RlResult(store, err, wrote) == [crs |-> store, err |-> err, wrote |-> wrote]

\* Reconcile of either controller for the request key, up to the finalizer:
\* cleanupFails is the outcome of ReconcileObject(Deleted) or deleteEnvoyFilters,
\* updateFails the outcome of UpdateWithRetry or Patch on the object
ReconcileFinalizer(store, key, cleanupFails, updateFails) ==
    IF key \notin DOMAIN store
    THEN RlResult(store, FALSE, FALSE)
    ELSE IF store[key].deleting
    THEN IF ~store[key].finalizer
         THEN RlResult(store, FALSE, FALSE)
         ELSE IF cleanupFails
              THEN RlResult(store, TRUE, FALSE)
              ELSE IF updateFails
                   THEN \* the error is logged and Reconcile returns nil
                        RlResult(store, FALSE, FALSE)
                   ELSE RlResult(Drop(store, key), FALSE, TRUE)
    ELSE IF store[key].finalizer
         THEN RlResult(store, cleanupFails, FALSE)
         ELSE IF updateFails
              THEN RlResult(store, TRUE, FALSE)
              ELSE RlResult([store EXCEPT ![key].finalizer = TRUE], cleanupFails, TRUE)

RlInit ==
    /\ crs = <<>>
    /\ cms = <<>>
    /\ rc = [queue |-> {}, failures |-> 0]
    /\ epoch = 0
    /\ watch = <<>>
    /\ config = <<>>
    /\ adm = <<>>
    /\ fn = <<>>

\* a user creates an object: the controller's watch enqueues its key
RlCreate(key) ==
    /\ key \notin DOMAIN crs
    /\ crs' = (key :> RlObject) @@ crs
    /\ rc' = [rc EXCEPT !.queue = @ \cup {key}]
    /\ UNCHANGED <<cms, epoch, watch, config, adm, fn>>

\* a user deletes an object: with the finalizer it is marked for deletion,
\* without it it is gone; the watch enqueues its key
RlDelete(key) ==
    /\ key \in DOMAIN crs
    /\ ~crs[key].deleting
    /\ crs' = IF crs[key].finalizer THEN [crs EXCEPT ![key].deleting = TRUE]
              ELSE Drop(crs, key)
    /\ rc' = [rc EXCEPT !.queue = @ \cup {key}]
    /\ UNCHANGED <<cms, epoch, watch, config, adm, fn>>

\* the worker takes a request and runs Reconcile; a request whose Reconcile
\* returned an error is added again, and so is the key of an object Reconcile
\* has written and left in the Store (the watch reports the update)
RlReconcile(key) ==
    /\ key \in rc.queue
    /\ \E cleanupFails, updateFails \in BOOLEAN :
          LET failed == (IF cleanupFails THEN 1 ELSE 0) + (IF updateFails THEN 1 ELSE 0)
              out == ReconcileFinalizer(crs, key, cleanupFails, updateFails)
          IN  /\ rc.failures + failed <= MaxStoreFailures
              /\ crs' = out.crs
              /\ rc' = [queue |-> IF out.wrote /\ key \in DOMAIN out.crs
                                  THEN rc.queue
                                  ELSE requeue(rc.queue, key, out.err),
                        failures |-> rc.failures + failed]
    /\ UNCHANGED <<cms, epoch, watch, config, adm, fn>>

RlWorker == \E key \in RlKeys : RlReconcile(key)

RlNext ==
    \/ \E key \in RlKeys : RlCreate(key)
    \/ \E key \in RlKeys : RlDelete(key)
    \/ RlWorker

\* the workqueue is first in, first out: every request it holds reaches the
\* worker
ReleaseSpec == RlInit /\ [][RlNext]_vars /\ \A key \in RlKeys : WF_vars(RlReconcile(key))

----------------------------------------------------------------------------
(* Properties of the tables *)

Rows(hosts, h) == IF h \in DOMAIN hosts THEN hosts[h] ELSE <<>>

\* C3: FindRoute returns the first route, in the order of
\* table.hosts[stripPort(host)], whose Match(path) is true, and no route when the
\* host has no entry or none of its routes matches
C3_FindRouteFirstMatch ==
    fn.op = "FindRoute" =>
        LET rows == Rows(fn.snapshot, stripPort(fn.host))
            hits == {i \in 1..Len(rows) : Match(rows[i], fn.path)}
        IN  IF hits = {} THEN ~fn.result.found
            ELSE /\ fn.result.found
                 /\ fn.result.route = rows[CHOOSE i \in hits : \A j \in hits : i <= j]

\* the non-deleting specs of target t that declare host h, by position in the list
Declaring(list, t, h) ==
    {i \in 1..Len(list) :
        ~list[i].deleting /\ list[i].target = t /\ h \in Range(list[i].hostnames)}

\* the specs among them whose namespace is the lexicographically smallest
Owners(list, t, h) ==
    {i \in Declaring(list, t, h) :
        \A j \in Declaring(list, t, h) : ~StrLess(list[j].namespace, list[i].namespace)}

SameBag(a, b) == \A r \in Range(a) \cup Range(b) : Count(a, r) = Count(b, r)

RECURSIVE OwnedRows(_, _, _)
OwnedRows(list, S, k) ==
    IF k > Len(list) THEN <<>>
    ELSE (IF k \in S THEN expandRules(list[k].pathPrefixes, list[k].rules) ELSE <<>>)
         \o OwnedRows(list, S, k + 1)

\* C4: the routes of the aggregated table for (t, h) are exactly the expansions
\* of the non-deleting specs of t that declare h in the lexicographically
\* smallest namespace declaring it; no other namespace's routes for h appear
C4_HostnameOwnership ==
    fn.op = "rebuild" =>
        \A h \in {HostA, HostB, HostV6} :
            /\ SameBag(Rows(fn.table, h),
                       OwnedRows(fn.routeList, Owners(fn.routeList, fn.target, h), 1))
            /\ (h \in DOMAIN fn.table <=> Declaring(fn.routeList, fn.target, h) # {})

C4_Witness ==
    /\ fn.op = "rebuild"
    /\ fn.routeList = <<crMix, crApi>>
    /\ Len(fn.table[HostA]) = 3
    /\ Len(fn.table[HostB]) = 3

\* C5: the serialized payload of every published partition is at most
\* 900*1024 bytes, split-host partitions included
C5_PartitionSizeBound ==
    \A i \in 1..Len(fn.partitions) :
        ToJSONLen(fn.partitions[i].data.hosts) <= maxConfigMapSize

RECURSIVE ConcatPartitions(_, _)
ConcatPartitions(partitions, h) ==
    IF partitions = <<>> THEN <<>>
    ELSE Rows(Head(partitions).data.hosts, h) \o ConcatPartitions(Tail(partitions), h)

RECURSIVE SumLens(_, _)
SumLens(hosts, S) ==
    IF S = {} THEN 0
    ELSE LET h == CHOOSE x \in S : TRUE
         IN  Len(hosts[h]) + SumLens(hosts, S \ {h})

RECURSIVE TotalRows(_)
TotalRows(partitions) ==
    IF partitions = <<>> THEN 0
    ELSE SumLens(Head(partitions).data.hosts, DOMAIN Head(partitions).data.hosts)
         + TotalRows(Tail(partitions))

\* C6: partitioning neither loses, adds nor duplicates routes: per host, the
\* partitions' route lists concatenated in index order are the host's list before
\* partitioning, and the partitions hold no row beyond those (so the parts of a
\* split host are disjoint)
C6_PartitionsPreserveRoutes ==
    fn.op = "rebuild" =>
        /\ \A h \in DOMAIN fn.table :
              ConcatPartitions(fn.partitions, h) = ToJSON(fn.table).hosts[h]
        /\ \A i \in 1..Len(fn.partitions) :
              /\ DOMAIN fn.partitions[i].data.hosts \subseteq DOMAIN fn.table
              /\ fn.partitions[i].name = partitionName(fn.target, i - 1)
        /\ TotalRows(fn.partitions) = SumLens(fn.table, DOMAIN fn.table)

C6_Witness ==
    /\ fn.op = "rebuild"
    /\ \E i \in 1..Len(fn.partitions) : \E j \in 1..Len(fn.partitions) :
          /\ i < j
          /\ HostA \in DOMAIN fn.partitions[i].data.hosts
          /\ HostA \in DOMAIN fn.partitions[j].data.hosts
    /\ \E k \in 1..Len(fn.partitions) : HostB \in DOMAIN fn.partitions[k].data.hosts

KindRank(t) == IF t = RouteTypeExact THEN 1 ELSE IF t = RouteTypeRegex THEN 2 ELSE 3

\* row a may stand before row b in the canonical order
InOrder(a, b) ==
    \/ a.priority > b.priority
    \/ /\ a.priority = b.priority
       /\ \/ KindRank(a.type) < KindRank(b.type)
          \/ /\ KindRank(a.type) = KindRank(b.type)
             /\ StrLen(a.path) >= StrLen(b.path)

Canonical(hosts) ==
    \A h \in DOMAIN hosts : \A i \in 1..Len(hosts[h]) : \A j \in 1..Len(hosts[h]) :
        i < j => InOrder(hosts[h][i], hosts[h][j])

\* C8: in every table of the expander, the aggregator and a snapshot build, each
\* host's routes are ordered by priority descending, then kind (Exact, Regex,
\* Prefix), then path length descending
C8_CanonicalOrder ==
    /\ Canonical(fn.expanded)
    /\ Canonical(fn.table)
    /\ Canonical(fn.snapshot)

C8_Witness ==
    /\ fn.op = "Load"
    /\ fn.routeList = <<crMix>>
    /\ fn.snapshot[HostB][1].type = RouteTypeRegex
    /\ fn.snapshot[HostB][3].type = RouteTypeExact

SameKey(a, b) ==
    a.priority = b.priority /\ a.type = b.type /\ StrLen(a.path) = StrLen(b.path)

Position(rows, r) == CHOOSE i \in 1..Len(rows) : rows[i] = r /\ \A j \in 1..(i - 1) : rows[j] # r

\* C9: sorting is stable: two rows of a host with the same priority, kind and
\* path length stand in the sorted table in the order the expander appended them
C9_SortStable ==
    fn.op = "ExpandRoutes" =>
        LET cr == fn.routeList[fn.index]
            appended == expandRules(cr.pathPrefixes, cr.rules)
        IN  \A h \in DOMAIN fn.expanded :
            \A i \in 1..Len(fn.expanded[h]) : \A j \in 1..Len(fn.expanded[h]) :
                (i < j /\ SameKey(fn.expanded[h][i], fn.expanded[h][j]))
                    => Position(appended, fn.expanded[h][i])
                         <= Position(appended, fn.expanded[h][j])

----------------------------------------------------------------------------
(* Properties of publication and of the loader's snapshot *)

\* the tables of whole publications: what a loader builds from all the
\* partitions one rebuild computes, for any set of routes in the Store
CompleteTables ==
    UNION {tablesOf(storeOf(plan), LoaderTarget) :
             plan \in UNION {rebuildPlans(l) :
                      l \in UNION {listRoutes([u \in S |-> Object(u)]) : S \in SUBSET Uids}}}

\* C1: the snapshot lookups are answered from is never partial: it is the table
\* of all the partitions of one publication, never of some of them or of a mix
\* of two publications
C1_AtomicSnapshots == config \in CompleteTables

\* C7: after a publication the Store holds, for each target, exactly the
\* partitions of the table just computed, and none for a target without a
\* non-deleting spec: every stale partition has been deleted
C7_StalePartitionsDeleted ==
    (rc.pc = "idle" /\ rc.req # "") =>
        /\ DOMAIN cms = {rc.partitions[i].name : i \in 1..Len(rc.partitions)}
        /\ \A i \in 1..Len(rc.partitions) :
              cms[rc.partitions[i].name] =
                  [target |-> rc.partitions[i].target, data |-> rc.partitions[i].data]
        /\ \A t \in {TargetT, TargetU} :
              routesByTarget(rc.list, t) = <<>> =>
                  ~\E n \in DOMAIN cms : cms[n].target = t

C7_Witness ==
    /\ rc.pc = "idle"
    /\ rc.deleted # {}
    /\ \E n \in DOMAIN cms : cms[n].target = TargetT
    /\ ~\E n \in DOMAIN cms : cms[n].target = TargetU

\* the snapshot is a table built from the partitions now in the Store
Consistent == config \in reload(cms)

\* C10: if the partitions stop changing, the loader's snapshot eventually equals
\* the table built from the partitions in the Store, and stays so
C10_EventuallyConsistent == <>[][cms' = cms]_vars => <>[]Consistent

-----------------------------------------------------------------------------
(* Properties of admission *)

\* C2: after any sequence of admitted creates and updates, reviews that
\* interleave included, no two stored CustomHTTPRoutes with the same targetName
\* and a common hostname have overlapping projected matches
C2_OverlapSoundness ==
    \A a, b \in DOMAIN crs :
       (/\ a # b
        /\ crs[a].target = crs[b].target
        /\ toSet(crs[a].hostnames) \cap toSet(crs[b].hostnames) # {})
       => \A i \in 1..Len(extractCustomRouteMatches(crs[a])),
             j \in 1..Len(extractCustomRouteMatches(crs[b])) :
             ~matchesOverlap(extractCustomRouteMatches(crs[a])[i],
                             extractCustomRouteMatches(crs[b])[j])

\* two specs overlap: same target, a common hostname, and a pair of projected
\* matches that overlap
Overlapping(a, b) ==
    /\ a.target = b.target
    /\ toSet(a.hostnames) \cap toSet(b.hostnames) # {}
    /\ \E i \in 1..Len(extractCustomRouteMatches(a)) :
       \E j \in 1..Len(extractCustomRouteMatches(b)) :
           matchesOverlap(extractCustomRouteMatches(a)[i], extractCustomRouteMatches(b)[j])

\* C20: the conflict check ignores the stored spec with the candidate's own
\* identity: a valid update that overlaps no other stored spec is admitted
\* even when it overlaps its own stored version, and a candidate that overlaps
\* another stored spec of its target is rejected
C20_SelfIgnored ==
    fn.op = "review" =>
        LET others == DOMAIN fn.listed \ {fn.uid}
        IN  /\ (~Validate(fn.route)
                 /\ \A b \in others : ~Overlapping(fn.route, fn.listed[b]))
                => fn.admitted
            /\ (\E b \in others : Overlapping(fn.route, fn.listed[b])) => ~fn.admitted

\* an update that overlaps its own stored version is admitted while another
\* spec of the target is stored
C20_Witness ==
    /\ fn.op = "review"
    /\ fn.uid \in DOMAIN fn.listed
    /\ DOMAIN fn.listed \ {fn.uid} # {}
    /\ \E b \in DOMAIN fn.listed \ {fn.uid} : fn.listed[b].target = fn.route.target
    /\ Overlapping(fn.route, fn.listed[fn.uid])
    /\ fn.admitted

-----------------------------------------------------------------------------
(* Properties of reloads *)

\* a payload of the target does not parse, or a Regex row of one does not compile
Broken(store, targetName) ==
    \E n \in DOMAIN store :
       /\ store[n].target = targetName
       /\ \/ "truncated" \in DOMAIN store[n].data
          \/ \E h \in DOMAIN store[n].data.hosts :
                \E i \in 1..Len(store[n].data.hosts[h]) :
                   /\ store[n].data.hosts[h][i].type = RouteTypeRegex
                   /\ CompileFails(store[n].data.hosts[h][i].path)

\* C11: when a rebuild of the snapshot fails because a payload does not parse
\* or a regex does not compile, the previous snapshot is retained unchanged and
\* lookups are answered from it
C11_FailedReloadKeepsSnapshot ==
    (fn.op \in {"reload", "FindRoute"} /\ Broken(cms, LoaderTarget)) =>
        /\ config = fn.snapshot
        /\ fn.op = "FindRoute" => fn.result = FindRoute(fn.snapshot, fn.host, fn.path)

C11_Witness ==
    /\ fn.op = "FindRoute"
    /\ Broken(cms, LoaderTarget)
    /\ fn.snapshot # <<>>
    /\ fn.result.found
    /\ \E n \in DOMAIN cms : "truncated" \in DOMAIN cms[n].data

-----------------------------------------------------------------------------
(* Properties of the engine *)

\* the last message of the stream was a RequestHeaders whose lookup matched
Matched == fn.op = "RequestHeaders" /\ fn.result.found

AnyRedirect(actions) == \E i \in 1..Len(actions) : actions[i].Type = ActionTypeRedirect

\* the Redirect of the list that no Redirect precedes
LeadingRedirect(actions) ==
    actions[CHOOSE i \in 1..Len(actions) :
               /\ actions[i].Type = ActionTypeRedirect
               /\ \A j \in 1..(i - 1) : actions[j].Type # ActionTypeRedirect]

\* C12: when the matched route's actions contain a Redirect at any position,
\* the response is the ImmediateResponse built from the first Redirect of the
\* list; it is no header-mutation directive and carries nothing of the route's
\* other actions
C12_RedirectPrecedence ==
    (Matched /\ AnyRedirect(fn.result.route.actions)) =>
        /\ fn.last.kind = "ImmediateResponse"
        /\ fn.last = buildRedirectResponse(LeadingRedirect(fn.result.route.actions), fn.vars)
        /\ ~fn.last.common
        /\ fn.last.removeHeaders = <<>>
        /\ Len(fn.last.setHeaders) = 1
        /\ fn.last.setHeaders[1].key = "Location"

\* a route whose Redirect comes third, after a HeaderSet and a Rewrite
C12_Witness ==
    /\ Matched
    /\ fn.result.route.path = <<"/", "s">>
    /\ fn.authority = HostA \o <<":", "8", "0">>
    /\ fn.last.kind = "ImmediateResponse"
    /\ fn.last.status = 301
    /\ fn.last.setHeaders[1].value = Https \o <<":", "/", "/">> \o HostA \o <<"/", "n">>

\* C13: every ResponseHeaders, RequestBody, ResponseBody, RequestTrailers or
\* ResponseTrailers message is answered with an empty acknowledgement of its
\* kind, and the engine's state (its snapshot) is as it was before the message
C13_OtherMessagesAcknowledged ==
    fn.op \in OtherMessages =>
        /\ fn.last = EmptyResponse(fn.op)
        /\ config = fn.before

\* the matched route has no Redirect: the response is a forward directive
Forwarded == Matched /\ ~AnyRedirect(fn.result.route.actions)

RewritesHostname(actions) ==
    \E i \in 1..Len(actions) :
        actions[i].Type = ActionTypeRewrite /\ actions[i].RewriteHostname # <<>>

\* C14: for a matched route without Redirect whose actions rewrite no hostname,
\* the forward directive leaves :authority and Host equal to the authority of
\* the incoming request
C14_AuthorityUnchanged ==
    (Forwarded /\ ~RewritesHostname(fn.result.route.actions)) =>
        \A i \in 1..Len(fn.last.setHeaders) :
            fn.last.setHeaders[i].key \in {":authority", "Host"} =>
                fn.last.setHeaders[i].value = fn.authority

\* the rewrites of a path among the actions, in order
PathRewrites(actions) ==
    SelectSeq(actions, LAMBDA a : a.Type = ActionTypeRewrite /\ a.RewritePath # <<>>)

\* the query string of a path, with its question mark
QueryOf(path) ==
    IF Index(path, "?") = 0 THEN <<>> ELSE SubSeq(path, Index(path, "?"), Len(path))

PathOf(path) ==
    IF Index(path, "?") = 0 THEN path ELSE SubSeq(path, 1, Index(path, "?") - 1)

\* prefix-rewrite: an explicit replacePrefixMatch, else a Prefix route and a
\* rewrite path without placeholders
PrefixRewrite(route, action) ==
    CASE action.RewriteReplacePrefixMatch = "true" -> TRUE
      [] action.RewriteReplacePrefixMatch = "false" -> FALSE
      [] OTHER -> route.type = RouteTypePrefix /\ ~Contains(action.RewritePath, <<"$", "{">>)

\* the path the upstream is to receive: the :path of the directive, or the
\* request's own path when the directive sets none
ForwardedPath ==
    IF \E i \in 1..Len(fn.last.setHeaders) : fn.last.setHeaders[i].key = ":path"
    THEN HeaderValue(fn.last.setHeaders, ":path")
    ELSE fn.vars.path

\* C15: a path rewrite preserves the query string: a prefix-rewrite yields the
\* substituted rewrite path, then the original path beyond the matched prefix,
\* then the original query string; a full-rewrite yields the substituted
\* rewrite value, then the original query string
C15_RewritePreservesQuery ==
    (Forwarded /\ Len(PathRewrites(fn.result.route.actions)) = 1) =>
        LET route == fn.result.route
            action == PathRewrites(route.actions)[1]
            sub == substituteVariables(action.RewritePath, fn.vars)
            path == PathOf(fn.vars.path)
            rest == SubSeq(path, Len(route.path) + 1, Len(path))
        IN  ForwardedPath =
               IF PrefixRewrite(route, action) THEN sub \o rest \o QueryOf(fn.vars.path)
               ELSE sub \o QueryOf(fn.vars.path)

-----------------------------------------------------------------------------
(* Properties of Reconcile *)

\* the listed specs whose expansion returns no error
Expanding(list) == {i \in 1..Len(list) : estimatedRoutes(list[i]) <= MaxRoutesPerCRD}

\* the specs of the Store the last Reconcile left, in some order
Stored == CHOOSE list \in listRoutes(rc.last.store) : TRUE

\* C16: when the expansion of one spec fails, the Reconcile still publishes,
\* for every target, the table aggregated from the remaining specs: each host
\* holds exactly the routes of the owning specs that expand, so that only the
\* failing spec's routes are missing
C16_ExpansionErrorsIsolated ==
    (rc.last.outcome = "ok" /\ Expanding(Stored) # 1..Len(Stored)) =>
        /\ \A n \in DOMAIN cms : cms[n].target \in targetsOf(Stored)
        /\ \A t \in targetsOf(Stored) :
              /\ tablesOf(cms, t) # {}
              /\ \A table \in tablesOf(cms, t) :
                    \A h \in DOMAIN table \cup {HostA, HostB} :
                        SameBag(Rows(table, h),
                                OwnedRows(Stored,
                                          Owners(Stored, t, h) \cap Expanding(Stored), 1))

\* the exploding spec is stored with a spec of its target and one of another
\* target, and both are published
C16_Witness ==
    /\ rc.last.outcome = "ok"
    /\ DOMAIN rc.last.store = {"a", "x", "o"}
    /\ \E table \in tablesOf(cms, TargetT) : Len(Rows(table, HostA)) = 3
    /\ \E table \in tablesOf(cms, TargetU) : Len(Rows(table, HostA)) = 1

\* the persisted status of a condition of the object uid
Persisted(store, uid, type) ==
    IF uid \in DOMAIN store /\ type \in DOMAIN store[uid].status
    THEN store[uid].status[type]
    ELSE [status |-> "Unknown", reason |-> ""]

\* C17: a spec whose expansion fails with the route-explosion error ends its
\* reconciliation with the persisted condition Reconciled=False, reason
\* ExplosionLimit
C17_ExplosionReported ==
    \A u \in DOMAIN rc.last.store :
        (/\ rc.last.uid = u
         /\ rc.last.outcome \in {"ok", "failed"}
         /\ ~rc.last.store[u].deleting
         /\ estimatedRoutes(rc.last.store[u]) > MaxRoutesPerCRD) =>
            Persisted(rc.last.store, u, ConditionTypeReconciled) =
                [status |-> "False", reason |-> "ExplosionLimit"]

Synced(store, uid) == Persisted(store, uid, ConditionTypeConfigMapSynced).status

C19_ValidationFailureReported ==
    (rc.last.outcome = "invalid" /\ crs = rc.last.store) =>
        /\ rc.last.uid \notin rc.queue
        /\ \E type \in {ConditionTypeReconciled, ConditionTypeConfigMapSynced} :
              Persisted(crs, rc.last.uid, type).status = "False"

-----------------------------------------------------------------------------
(* Properties of admission with gateway-API HTTPRoutes *)

\* two sets of <<name, value>> criteria are compatible: one is empty, or every
\* name of both (compared without case) has equal values
CriteriaCompatible(a, b) ==
    \/ a = <<>>
    \/ b = <<>>
    \/ \A i \in 1..Len(a) : \A j \in 1..Len(b) :
           ToLower(a[i][1]) = ToLower(b[j][1]) => a[i][2] = b[j][2]

\* the overlap of two projections
ProjectionsOverlap(p, q) ==
    /\ p.PathType = q.PathType
    /\ p.Path = q.Path
    /\ (p.Method = <<>> \/ q.Method = <<>> \/ ToLower(p.Method) = ToLower(q.Method))
    /\ CriteriaCompatible(p.Headers, q.Headers)
    /\ CriteriaCompatible(p.QueryParams, q.QueryParams)

\* a CustomHTTPRoute and an HTTPRoute conflict: a common hostname and a pair of
\* projected matches that overlap
Conflicting(cr, hr) ==
    /\ toSet(cr.hostnames) \cap toSet(hr.hostnames) # {}
    /\ \E i \in 1..Len(extractCustomRouteMatches(cr)) :
       \E j \in 1..Len(extractHTTPRouteMatches(hr)) :
           ProjectionsOverlap(extractCustomRouteMatches(cr)[i], extractHTTPRouteMatches(hr)[j])

\* C21: the conflict decision between a CustomHTTPRoute and an HTTPRoute is
\* symmetric: the review of an HTTPRoute against a stored CustomHTTPRoute
\* rejects exactly when the review of that CustomHTTPRoute against the stored
\* HTTPRoute would reject, which is exactly when they have a common hostname
\* and a pair of overlapping projected matches
C21_SymmetricConflict ==
    LET customs == customRoutesOf(fn.listed)
        https == httpRoutesOf(fn.listed)
    IN  /\ fn.op = "httproute" =>
              /\ \A c \in DOMAIN customs :
                    /\ CheckHTTPRouteHostnames(c :> customs[c], fn.route)
                           <=> ~AdmittedCustom(fn.uid :> fn.route, c, customs[c])
                    /\ CheckHTTPRouteHostnames(c :> customs[c], fn.route)
                           <=> Conflicting(customs[c], fn.route)
              /\ ~fn.admitted <=> \E c \in DOMAIN customs : Conflicting(customs[c], fn.route)
        /\ fn.op = "custom" =>
              /\ \A h \in DOMAIN https :
                    /\ ~AdmittedCustom(h :> https[h], fn.uid, fn.route)
                           <=> CheckHTTPRouteHostnames(fn.uid :> fn.route, https[h])
                    /\ ~AdmittedCustom(h :> https[h], fn.uid, fn.route)
                           <=> Conflicting(fn.route, https[h])
              /\ (\E h \in DOMAIN https : Conflicting(fn.route, https[h])) => ~fn.admitted

\* an HTTPRoute whose match has a method and headers is rejected for one of
\* two stored CustomHTTPRoutes while another HTTPRoute is stored
C21_Witness ==
    /\ fn.op = "httproute"
    /\ ~fn.admitted
    /\ \E j \in 1..Len(extractHTTPRouteMatches(fn.route)) :
           extractHTTPRouteMatches(fn.route)[j].Method # <<>>
    /\ DOMAIN httpRoutesOf(fn.listed) # {}
    /\ \E c \in DOMAIN customRoutesOf(fn.listed) :
           ~Conflicting(customRoutesOf(fn.listed)[c], fn.route)

-----------------------------------------------------------------------------
(* Properties of the expander *)

\* the effective expandKinds of a rule: the rule's override if it names kinds,
\* else the spec's configuration if it names kinds, else all kinds
EffectiveKinds(specPrefixes, rule) ==
    IF rule.pathPrefixes.set /\ rule.pathPrefixes.expandMatchTypes # <<>>
    THEN Range(rule.pathPrefixes.expandMatchTypes)
    ELSE IF specPrefixes.set /\ specPrefixes.expandMatchTypes # <<>>
         THEN Range(specPrefixes.expandMatchTypes)
         ELSE {MatchTypeExact, MatchTypePathPrefix, MatchTypeRegex}

Eligible(specPrefixes, rule, match) == match.type \in EffectiveKinds(specPrefixes, rule)

\* the prefix values of the spec
PrefixValues(specPrefixes) == IF specPrefixes.set THEN specPrefixes.values ELSE <<>>

\* the number of routes a match yields
Emitted(specPrefixes, rule, match) ==
    IF match.type = MatchTypeRegex \/ ~Eligible(specPrefixes, rule, match) THEN 1
    ELSE CASE getEffectivePolicy(specPrefixes, rule) = PathPrefixPolicyDisabled -> 1
           [] getEffectivePolicy(specPrefixes, rule) = PathPrefixPolicyRequired ->
                  Len(PrefixValues(specPrefixes))
           [] OTHER -> Len(PrefixValues(specPrefixes)) + 1

RECURSIVE EmittedBefore(_, _, _)
EmittedBefore(specPrefixes, rule, i) ==
    IF i = 1 THEN 0
    ELSE EmittedBefore(specPrefixes, rule, i - 1)
         + Emitted(specPrefixes, rule, rule.matches[i - 1])

\* the routes of the i-th match of the rule among the routes of the rule
RoutesOfMatch(routes, specPrefixes, rule, i) ==
    LET from == EmittedBefore(specPrefixes, rule, i)
        to == from + Emitted(specPrefixes, rule, rule.matches[i])
    IN  IF to <= Len(routes) THEN SubSeq(routes, from + 1, to) ELSE <<>>

\* the row of a match with the pattern path: the kind and the priority of the
\* match (1000 by default), the backend and the actions of the rule
RowOf(rule, match, path) ==
    [path |-> path,
     type |-> CASE match.type = MatchTypeExact -> RouteTypeExact
                [] match.type = MatchTypeRegex -> RouteTypeRegex
                [] OTHER -> RouteTypePrefix,
     backend |-> buildBackendString(rule.backendRefs),
     priority |-> IF match.priority = 0 THEN DefaultPriority ELSE match.priority,
     actions |-> convertActions(rule.actions)]

PrefixedRows(specPrefixes, rule, match) ==
    [k \in 1..Len(PrefixValues(specPrefixes)) |->
        RowOf(rule, match, <<"/">> \o PrefixValues(specPrefixes)[k] \o match.path)]

C23_ExpansionEligibility ==
    fn.op = "expandRule" =>
        /\ Len(fn.routes) = EmittedBefore(fn.specPrefixes, fn.rule, Len(fn.rule.matches) + 1)
        /\ \A i \in 1..Len(fn.rule.matches) :
              LET match == fn.rule.matches[i]
                  emitted == RoutesOfMatch(fn.routes, fn.specPrefixes, fn.rule, i)
                  literal == <<RowOf(fn.rule, match, match.path)>>
              IN  /\ ~Eligible(fn.specPrefixes, fn.rule, match) => emitted = literal
                  /\ emitted # literal => Eligible(fn.specPrefixes, fn.rule, match)

\* a rule whose override makes only Regex eligible, under Required with two
\* prefix values: the Prefix and the Exact match stay literal and the Regex
\* match is rewritten
C23_Witness ==
    /\ fn.op = "expandRule"
    /\ Len(fn.rule.matches) = 3
    /\ fn.rule.pathPrefixes.set
    /\ fn.rule.pathPrefixes.expandMatchTypes = <<MatchTypeRegex>>
    /\ fn.rule.pathPrefixes.policy = PathPrefixPolicyRequired
    /\ fn.specPrefixes.set
    /\ fn.specPrefixes.expandMatchTypes = <<MatchTypeExact>>
    /\ Len(fn.specPrefixes.values) = 2
    /\ Len(fn.routes) = 3
    /\ fn.routes[2].path # fn.rule.matches[2].path

\* a pattern the rewriting applies to: it compiles, has no {prefix} sentinel and
\* is rooted (a / first, after ^ if there is one)
Rooted(pattern) ==
    /\ ~CompileFails(pattern)
    /\ ~Contains(pattern, PrefixPlaceholder)
    /\ HasPrefix(IF HasPrefix(pattern, <<"^">>) THEN Tail(pattern) ELSE pattern, <<"/">>)

\* path starts with a language prefix
HasLanguagePrefix(values, path) ==
    \E k \in 1..Len(values) : HasPrefix(path, <<"/">> \o values[k] \o <<"/">>)

\* C24: for a Regex match eligible for Optional or Required expansion the
\* rewritten pattern compiles, matches "/"+v+rest for every prefix value v and
\* every rest the original pattern matches, and under Required matches no
\* path without a language prefix
C24_RegexRewritingSound ==
    fn.op = "expandRule" =>
        \A i \in 1..Len(fn.rule.matches) :
            LET match == fn.rule.matches[i]
                policy == getEffectivePolicy(fn.specPrefixes, fn.rule)
                values == PrefixValues(fn.specPrefixes)
                rewritten == RoutesOfMatch(fn.routes, fn.specPrefixes, fn.rule, i)[1].path
            IN  (/\ match.type = MatchTypeRegex
                 /\ Eligible(fn.specPrefixes, fn.rule, match)
                 /\ policy \in {PathPrefixPolicyOptional, PathPrefixPolicyRequired}
                 /\ values # <<>>
                 /\ Rooted(match.path))
                => /\ ~CompileFails(rewritten)
                   /\ \A k \in 1..Len(values) : \A rest \in ExPaths :
                          MatchString(match.path, rest)
                              => MatchString(rewritten, <<"/">> \o values[k] \o rest)
                   /\ policy = PathPrefixPolicyRequired
                          => \A path \in ExPaths :
                                 ~HasLanguagePrefix(values, path) => ~MatchString(rewritten, path)

-----------------------------------------------------------------------------
(* Properties of the matcher and of the lookup *)

\* a path without its one trailing slash; the root is kept
Normalized(p) == IF Len(p) > 1 /\ p[Len(p)] = "/" THEN SubSeq(p, 1, Len(p) - 1) ELSE p

\* C29: an Exact route matches a request path if and only if the normalized
\* route path equals the normalized request path: one trailing slash on
\* either side does not change the outcome
C29_ExactMatchesNormalized ==
    fn.op = "FindRoute" =>
        \A h \in DOMAIN fn.snapshot : \A i \in 1..Len(fn.snapshot[h]) :
            fn.snapshot[h][i].type = RouteTypeExact
                => (Match(fn.snapshot[h][i], fn.path)
                        <=> Normalized(fn.snapshot[h][i].path) = Normalized(fn.path))

\* the authority without its port: "[v6]:port" gives "[v6]", "host:port" gives
\* "host", an authority without a port is unchanged
LookupKey(authority) ==
    IF HasPrefix(authority, <<"[">>)
    THEN (IF Index(authority, "]") # 0 /\ Index(authority, "]") < Len(authority)
             /\ authority[Index(authority, "]") + 1] = ":"
          THEN SubSeq(authority, 1, Index(authority, "]"))
          ELSE authority)
    ELSE IF Index(authority, ":") # 0 THEN SubSeq(authority, 1, Index(authority, ":") - 1)
    ELSE authority

\* C30: FindRoute looks the request up under the authority without its port,
\* bracketed IPv6 literals included
C30_LookupKeyStripsPort ==
    fn.op = "FindRoute" =>
        fn.result = (IF LookupKey(fn.host) \in DOMAIN fn.snapshot
                     THEN firstMatch(fn.snapshot[LookupKey(fn.host)], fn.path)
                     ELSE NoRoute)

----------------------------------------------------------------------------
(* Properties of the catch-all EnvoyFilters *)

\* the entries of the -catchall EnvoyFilter of an attachment, none when it is
\* absent
Published(epa) ==
    IF filterKey(epa, catchAllFilterSuffix) \in DOMAIN cms
    THEN cms[filterKey(epa, catchAllFilterSuffix)].entries
    ELSE <<>>

\* the hostnames of the attachment's own catchAllRoute
OwnHostnames(epa) ==
    IF epa.catchAllRoute = Nil THEN {} ELSE Range(epa.catchAllRoute[1].Hostnames)

\* the entries derived from the route specs that a pass of the attachment
\* controller worked from
RouteEntries(listed) == IF listed = Nil THEN <<>> ELSE collectCatchAllEntries(listed[1])

\* merged holds one entry per hostname of either origin, the attachment's
\* backend for its own hostnames and the spec-derived backend for the others
Overrides(routeEntries, epa, merged) ==
    /\ {merged[i].Hostname : i \in 1..Len(merged)} =
           OwnHostnames(epa) \cup {routeEntries[i].Hostname : i \in 1..Len(routeEntries)}
    /\ \A i, j \in 1..Len(merged) : merged[i].Hostname = merged[j].Hostname => i = j
    /\ \A i \in 1..Len(merged) :
           IF merged[i].Hostname \in OwnHostnames(epa)
           THEN merged[i].BackendRef = epa.catchAllRoute[1].BackendRef
           ELSE \E k \in 1..Len(routeEntries) : routeEntries[k] = merged[i]

\* C25: in the merged catch-all set a pass publishes for an attachment, a
\* hostname of the attachment's own catchAllRoute maps to the attachment's
\* backend whatever the route specs declare for it, and a hostname declared
\* only by route specs keeps the spec-derived backend
C25_AttachmentOverrides ==
    /\ fn.op = "attachment" => Overrides(RouteEntries(fn.listed), fn.epa, Published(fn.epa))
    /\ fn.op = "routes" =>
           \A i \in 1..Len(fn.epaList) :
               Overrides(fn.entries, fn.epaList[i], Published(fn.epaList[i]))

\* a pass of the route controller has published, for an attachment that
\* claims host a, the attachment's backend for a over the spec-derived one
\* and the spec-derived backend for b
C25_Witness ==
    /\ fn.op = "routes"
    /\ \E i \in 1..Len(fn.epaList) :
           /\ OwnHostnames(fn.epaList[i]) = {HostA}
           /\ CatchAllEntry(HostA, CaB2) \in Range(fn.entries)
           /\ Published(fn.epaList[i]) =
                  <<CatchAllEntry(HostA, CaB3), CatchAllEntry(HostB, CaB2)>>

\* the listed specs that declare a catch-all for a hostname
DeclaringCatchAll(list, h) ==
    {i \in 1..Len(list) :
        ~list[i].deleting /\ list[i].catchAllRoute # Nil /\ h \in Range(list[i].hostnames)}

\* spec r comes before spec s in lexicographic (namespace, name) order
Before(r, s) ==
    \/ StrLess(r.namespace, s.namespace)
    \/ r.namespace = s.namespace /\ StrLess(r.name, s.name)

\* C26: for a hostname that several non-deleting specs declare a catch-all
\* for, the entries hold exactly one entry, with the backend of the declaring
\* spec that is last in lexicographic (namespace, name) order, in whatever
\* order the specs were listed
C26_StableWinner ==
    fn.op = "routes" =>
        \A h \in {HostA, HostB} :
            DeclaringCatchAll(fn.list, h) # {} =>
                LET winner == CHOOSE i \in DeclaringCatchAll(fn.list, h) :
                                  \A j \in DeclaringCatchAll(fn.list, h) \ {i} :
                                      Before(fn.list[j], fn.list[i])
                IN /\ Cardinality({k \in 1..Len(fn.entries) : fn.entries[k].Hostname = h}) = 1
                   /\ CatchAllEntry(h, fn.list[winner].catchAllRoute[1]) \in Range(fn.entries)

\* the merged catch-all entry set of an attachment is empty
MergedEmpty(routeEntries, epa) == routeEntries = <<>> /\ OwnHostnames(epa) = {}

\* C27: after a reconciliation of either controller in which the merged
\* catch-all entry set of an attachment is empty, the attachment has no
\* -catchall EnvoyFilter
C27_EmptyMeansAbsent ==
    /\ fn.op = "attachment" /\ MergedEmpty(RouteEntries(fn.listed), fn.epa) =>
           filterKey(fn.epa, catchAllFilterSuffix) \notin DOMAIN cms
    /\ fn.op = "routes" =>
           \A i \in 1..Len(fn.epaList) :
               MergedEmpty(fn.entries, fn.epaList[i]) =>
                   filterKey(fn.epaList[i], catchAllFilterSuffix) \notin DOMAIN cms

\* a reconciliation with an empty merged set has deleted the -catchall
\* EnvoyFilter published before it
C27_Witness ==
    /\ fn.op \in {"attachment", "routes"}
    /\ LET epas == IF fn.op = "routes" THEN Range(fn.epaList) ELSE {fn.epa}
           entries == IF fn.op = "routes" THEN fn.entries ELSE RouteEntries(fn.listed)
       IN \E epa \in epas :
              /\ MergedEmpty(entries, epa)
              /\ filterKey(epa, catchAllFilterSuffix) \in DOMAIN fn.before
              /\ filterKey(epa, catchAllFilterSuffix) \notin DOMAIN cms

\* C28: an EnvoyFilter exists only while its attachment is in the Store:
\* once the attachment has disappeared, none of its -extproc, -routes and
\* -catchall EnvoyFilters exists
C28_CascadeDeletion ==
    \A key \in DOMAIN cms :
        \E k \in DOMAIN caEpasOf(crs) : crs[k].namespace = key[1] /\ crs[k].name = key[2]

----------------------------------------------------------------------------
(* Properties of normalizePath *)

\* C40: normalizePath strips exactly one trailing "/" from a path longer than
\* one character and returns every other path, the root and the empty path
\* included, unchanged
C40_StripsOneSlash ==
    fn.op = "normalizePath" =>
        fn.result = IF Len(fn.path) > 1 /\ fn.path[Len(fn.path)] = "/"
                    THEN SubSeq(fn.path, 1, Len(fn.path) - 1)
                    ELSE fn.path

----------------------------------------------------------------------------
(* Properties of the content of the catch-all EnvoyFilter *)

\* the default cluster of a service reference: outbound|port||name for a
\* dotted name, outbound|port||name.namespace.svc.cluster.local otherwise
DefaultCluster(ref) ==
    <<"o", "u", "t", "b", "o", "u", "n", "d", "|">> \o Itoa(ref.port) \o <<"|", "|">> \o
    (IF \E i \in 1..Len(ref.name) : ref.name[i] = "."
     THEN ref.name
     ELSE ref.name \o <<".">> \o ref.namespace \o
          <<".", "s", "v", "c", ".", "c", "l", "u", "s", "t", "e", "r", ".", "l", "o", "c", "a", "l">>)

\* C39: the -catchall EnvoyFilter holds, whichever controller wrote it, one
\* virtual host per merged entry, with the entry's hostname and the default
\* cluster derived from the entry's backend, so that its content is the same
\* for the same Store contents
C39_SameArtifact ==
    \A key \in DOMAIN cms :
        key[3] = catchAllFilterSuffix =>
            cms[key].virtualHosts =
                [i \in 1..Len(cms[key].entries) |->
                    VirtualHost(cms[key].entries[i].Hostname,
                                DefaultCluster(cms[key].entries[i].BackendRef))]

----------------------------------------------------------------------------
(* Properties of the loader's watch *)

\* C34: when watchLoop re-establishes the watch after a closure, the changes
\* to the target's partitions made while it was down reach the snapshot
\* without a further change: the snapshot is the table of the partitions in
\* the Store, or a reload is due
C34_RelistOnReconnect ==
    [][(~watch.connected /\ watch'.connected) =>
           (watch'.pending \/ config' \in reload(cms'))]_vars

----------------------------------------------------------------------------
(* Properties of the lookup path under reloads *)

\* C33: a lookup never waits for an update: no stream holds or waits for a
\* lock in FindRoute, and a stream that has called FindRoute is not held up
\* by a reload, its List call included
C33_LookupsNeverBlock ==
    /\ rc.readers = 0
    /\ \A s \in Streams :
           fn[s].pc = "RLock" => ~rc.writer /\ watch.pc \notin {"Lock", "List", "merge"}

----------------------------------------------------------------------------
(* Properties of the engine's list filter *)

\* a partition passes the list filter of an engine: it is labelled as managed
\* by the controller and for the engine's target and, when the engine has a
\* partition namespace, lies in that namespace
PassesFilter(cm, serverConfig) ==
    /\ cm.managedBy = "customrouter-controller"
    /\ cm.target = serverConfig.TargetName
    /\ serverConfig.RoutesNamespace # <<>> => cm.namespace = serverConfig.RoutesNamespace

\* C31: every route of a snapshot the engine has loaded comes from a
\* partition of the Store that passes the engine's list filter
C31_ListFilter ==
    fn.op = "load" =>
        \A h \in DOMAIN config : \A i \in 1..Len(config[h]) :
            \E n \in DOMAIN fn.store :
                /\ PassesFilter(fn.store[n], rc.config)
                /\ h \in DOMAIN fn.store[n].data.hosts
                /\ \E k \in 1..Len(fn.store[n].data.hosts[h]) :
                       fn.store[n].data.hosts[h][k].path = config[h][i].path

----------------------------------------------------------------------------
(* Properties of the read-modify-write sequences *)

\* C32: every read-modify-write sequence of the control plane answers a
\* version conflict with a fresh read and a new write and fails only when its
\* fifth attempt conflicts; no sequence makes more than five attempts
C32_ConflictRetry ==
    /\ rc.attempts <= 5
    /\ rc.pc = "failed" => rc.conflicts = 5

----------------------------------------------------------------------------
(* Properties of the Store once the reconciliations have finished *)

\* the worker has finished every reconciliation that was triggered
Quiescent == rc.pc = "idle" /\ rc.queue = {}

\* the Store is a publication of the specs now stored
Aggregated == \E r \in Rebuilds : r.store = crs /\ cms = storeOf(r.partitions)

\* C35: once every triggered reconciliation has finished, the partitions in the
\* Store are the aggregation of the specs now stored: no publication made from
\* an older listing stays for good
C35_QuiescentAggregation == Quiescent => Aggregated

\* the partitions of the publications made without the spec uid
PartitionsExcluding ==
    [uid \in Uids |->
       {[name |-> p.name, object |-> [target |-> p.target, data |-> p.data]] :
          p \in UNION {Range(r.partitions) :
                         r \in {x \in Rebuilds : \/ uid \notin DOMAIN x.store
                                                 \/ x.store[uid].deleting}}}]

\* C36: once a spec has disappeared from the Store, every published partition
\* is one a rebuild without that spec writes: none holds routes that came only
\* from it
C36_GoneSpecUnpublished ==
    \A uid \in Uids \ DOMAIN crs : \A n \in DOMAIN cms :
       [name |-> n, object |-> cms[n]] \in PartitionsExcluding[uid]

----------------------------------------------------------------------------
(* Properties of the publication of specs that fail validation *)

\* the objects Validate rejects
InvalidUids == {uid \in StUids : Validate(StObject(uid))}

\* the partitions of the publications made from specs that pass Validate
PartitionsOfValid ==
    {[name |-> p.name, object |-> [target |-> p.target, data |-> p.data]] :
       p \in UNION {Range(x.partitions) :
                      x \in {y \in StPlans : y.live \cap InvalidUids = {}}}}

\* C38: while a spec that fails validation is stored, every published
\* partition is one the valid specs alone produce: none holds a route of the
\* invalid spec, whichever request triggered the rebuild
C38_InvalidUnpublished ==
    (InvalidUids \cap DOMAIN crs # {}) =>
        \A n \in DOMAIN cms : [name |-> n, object |-> cms[n]] \in PartitionsOfValid

----------------------------------------------------------------------------
(* Properties of the release of deleted objects *)

====
